---- MODULE Spec2Model ----
(***************************************************************************)
(* Model of the QP construction and solving pipeline of giskardpy:         *)
(*   - the horizon matrix assembler H / B / BA / A  (qp/qp_controller.py)  *)
(*   - the solver's solve / relaxed-retry state machine (qp/qp_solver.py)  *)
(*   - the controller's per-tick get_cmd state machine (qp_controller.py)  *)
(*   - the zero-weight filters of controller and solver formatter          *)
(*   - monitor gating of task constraints (tasks/task.py)                  *)
(* Each part has its own specification over the shared variables; the      *)
(* variables of the other parts keep their initial value.                  *)
(***************************************************************************)
EXTENDS Integers, Sequences, FiniteSets, TLC

VARIABLES
    build,      \* assembler: inputs of one controller build and its result
    solver,     \* QPSolver instance: retry budget and the last call's history
    ctrl,       \* QPController: compiled variants, evaluated data, last tick
    task,       \* Task: constraint maps and monitor lists
    filt        \* filters computed by the last update_filters calls

vars == <<build, solver, ctrl, task, filt>>

----------------------------------------------------------------------------
(* Generic helpers *)

Min(a, b) == IF a <= b THEN a ELSE b
Max(a, b) == IF a >= b THEN a ELSE b
MaxOf(S) == CHOOSE x \in S : \A y \in S : y <= x

RECURSIVE SumSeq(_)
SumSeq(s) == IF s = <<>> THEN 0 ELSE Head(s) + SumSeq(Tail(s))

\* concatenation of a sequence of sequences
RECURSIVE Concat(_)
Concat(ss) == IF ss = <<>> THEN <<>> ELSE Head(ss) \o Concat(Tail(ss))

\* the set of the elements of a sequence
Range(s) == {s[i] : i \in DOMAIN s}

SeqsUpTo(S, lo, hi) == UNION {[1..n -> S] : n \in lo..hi}

----------------------------------------------------------------------------
(* Derivatives enumeration: position=0, velocity=1, acceleration=2,        *)
(* jerk=3, snap=4.                                                         *)

position == 0
velocity == 1
acceleration == 2
jerk == 3
snap == 4

\* Derivatives.range(start, stop): the members d with start <= d <= stop.
DerivativesRange(start, stop) == {d \in position..snap : start <= d /\ d <= stop}

----------------------------------------------------------------------------
(* Bounds of the assembler model *)

MaxVars == 2        \* free variables per build
MaxOrder == 3       \* highest derivative a free variable may have
MaxN == 2           \* prediction horizon
MaxCons == 1        \* task (integral) constraints per build
MaxDCons == 1       \* derivative constraints per build

\* A free variable: its highest derivative and whether it has position limits.
\* Names are the indices of the sorted list, hence pairwise distinct.
FreeVariables == [order : velocity..MaxOrder, haspos : BOOLEAN]

\* A registered task constraint: control horizon already within 1..N.
TaskConstraints(N) == [control_horizon : 1..N]

\* A registered derivative constraint (velocity, acceleration or jerk).
DerivConstraints(N) == [derivative : velocity..jerk, control_horizon : 1..N]

BuildInputs ==
    UNION {[free_variables : SeqsUpTo(FreeVariables, 1, MaxVars),
            constraints : SeqsUpTo(TaskConstraints(N), 0, MaxCons),
            derivative_constraints : SeqsUpTo(DerivConstraints(N), 0, MaxDCons),
            prediction_horizon : {N}] : N \in 1..MaxN}

----------------------------------------------------------------------------
(* Parent: shared accessors of the four block classes *)

\* QPController.add_free_variables: self.order
ControllerOrder(b) ==
    Min(b.prediction_horizon + 1,
        MaxOf({b.free_variables[i].order : i \in DOMAIN b.free_variables}))

\* Parent.get_derivative_constraints(derivative): indices of the constraints
get_derivative_constraints(b, d) ==
    {j \in DOMAIN b.derivative_constraints : b.derivative_constraints[j].derivative = d}

\* sum of the control horizons of the derivative constraints of derivative d
ControlHorizonSum(b, d) ==
    SumSeq([j \in DOMAIN b.derivative_constraints |->
               IF b.derivative_constraints[j].derivative = d
               THEN b.derivative_constraints[j].control_horizon ELSE 0])

----------------------------------------------------------------------------
(* class H *)

H_number_of_free_variables_with_horizon(b) ==
    SumSeq([i \in DOMAIN b.free_variables |->
               Min(b.free_variables[i].order, ControllerOrder(b)) * b.prediction_horizon])

H_number_of_constraint_derivative_variables(b) ==
    SumSeq([d \in 1..ControllerOrder(b) |-> ControlHorizonSum(b, d)])

H_number_of_constraint_error_variables(b) == Len(b.constraints)

H_compute_height(b) ==
    H_number_of_free_variables_with_horizon(b)
    + H_number_of_constraint_derivative_variables(b)
    + H_number_of_constraint_error_variables(b)

\* the horizon steps t = 0 .. N-1, in order
Steps(b) == [t \in 1..b.prediction_horizon |-> t - 1]

\* Parent._sorter: every dictionary sorted by key, then all appended
_sorter(dicts) == Concat(dicts)

\* faulty variant: every variable is given the derivatives up to the
\* controller's order
FreeVariableKeys_ControllerOrder(b, o) ==
    Concat([s \in DOMAIN Steps(b) |->
        SelectSeq([i \in DOMAIN b.free_variables |-> <<"fv", Steps(b)[s], i, o>>],
                  LAMBDA k : o \in DerivativesRange(velocity, ControllerOrder(b)))])

\* entries t{t}/{v}/{o} of one derivative o, sorted by key: by step, then by
\* variable name (the variables are kept sorted by name)
FreeVariableKeys(b, o) ==
    Concat([s \in DOMAIN Steps(b) |->
        SelectSeq([i \in DOMAIN b.free_variables |-> <<"fv", Steps(b)[s], i, o>>],
                  LAMBDA k : o \in DerivativesRange(velocity,
                                     Min(b.free_variables[k[3]].order, ControllerOrder(b))))])

\* entries t{t}/{c.name} of the derivative constraints of derivative d, sorted
DerivativeKeys(b, d) ==
    Concat([s \in DOMAIN Steps(b) |->
        SelectSeq([j \in DOMAIN b.derivative_constraints |-> <<"dc", d, Steps(b)[s], j>>],
                  LAMBDA k : /\ k[4] \in get_derivative_constraints(b, d)
                             /\ k[3] < b.derivative_constraints[k[4]].control_horizon)])

\* H.weights(): the labels of the weights, in the order of the returned list
H_weights(b) ==
    _sorter([o \in 1..snap |-> FreeVariableKeys(b, o)]
            \o [d \in 1..ControllerOrder(b) |-> DerivativeKeys(b, d)]
            \o <<[c \in DOMAIN b.constraints |-> <<"err", c>>]>>)

----------------------------------------------------------------------------
(* class B *)

\* B.__call__(): self.names, the labels of lb and ub in order
B_call(b) ==
    _sorter([o \in 1..snap |-> FreeVariableKeys(b, o)]
            \o [d \in 1..ControllerOrder(b) |-> DerivativeKeys(b, d)]
            \o <<[c \in DOMAIN b.constraints |-> <<"err", c>>]>>)

----------------------------------------------------------------------------
(* class BA *)

\* rows t{t}/{v}/p_limit: one per step and position-limited variable
PositionLimitKeys(b) ==
    Concat([s \in DOMAIN Steps(b) |->
        SelectSeq([i \in DOMAIN b.free_variables |-> <<"p_limit", Steps(b)[s], i>>],
                  LAMBDA k : b.free_variables[k[3]].haspos)])

\* l_last_stuff[o]: rows {v}/last_{o} for o up to min(v.order, order)
LastKeys(b, o) ==
    SelectSeq([i \in DOMAIN b.free_variables |-> <<"last", i, o>>],
              LAMBDA k : o \in DerivativesRange(velocity,
                                 Min(b.free_variables[k[2]].order, ControllerOrder(b))))

\* derivative_link[o]: rows t{t}/{o}/{v}/link for t < N-1, o < min(v.order, order)
LinkKeys(b, o) ==
    Concat([t \in 1..(b.prediction_horizon - 1) |->
        SelectSeq([i \in DOMAIN b.free_variables |-> <<"link", t - 1, o, i>>],
                  LAMBDA k : o \in 1..(Min(b.free_variables[k[4]].order, ControllerOrder(b)) - 1))])

\* BA.__call__(): self.names, the labels of lbA and ubA in order
BA_call(b) ==
    _sorter(<<PositionLimitKeys(b)>>
            \o Concat([o \in 1..(ControllerOrder(b) - 1) |-> <<LastKeys(b, o), LinkKeys(b, o)>>])
            \o [d \in 1..ControllerOrder(b) |-> DerivativeKeys(b, d)]
            \o <<[c \in DOMAIN b.constraints |-> <<"e", c>>]>>)

----------------------------------------------------------------------------
(* class A *)

A_number_of_joints(b) == Len(b.free_variables)

A_num_of_continuous_joints(b) ==
    Cardinality({i \in DOMAIN b.free_variables : ~b.free_variables[i].haspos})

A_num_position_limits(b) == A_number_of_joints(b) - A_num_of_continuous_joints(b)

A_compute_height(b) ==
    b.prediction_horizon * A_num_position_limits(b)
    + A_number_of_joints(b) * b.prediction_horizon * (ControllerOrder(b) - 1)
    + ControlHorizonSum(b, velocity)
    + ControlHorizonSum(b, acceleration)
    + ControlHorizonSum(b, jerk)
    + Len(b.constraints)

A_compute_width(b) ==
    A_number_of_joints(b) * b.prediction_horizon * ControllerOrder(b)
    + ControlHorizonSum(b, velocity)
    + ControlHorizonSum(b, acceleration)
    + ControlHorizonSum(b, jerk)
    + Len(b.constraints)

\* A.construct_A(): the asserts guarding acceleration and jerk constraints
construct_A_asserts(b) ==
    /\ get_derivative_constraints(b, acceleration) # {} => ControllerOrder(b) >= jerk
    /\ get_derivative_constraints(b, jerk) # {} => ControllerOrder(b) >= snap

\* rows and columns A.construct_A() marks for deletion
construct_A_rows_to_delete(b) ==
    A_num_of_continuous_joints(b) * b.prediction_horizon
    + SumSeq([j \in DOMAIN b.derivative_constraints |->
                 b.prediction_horizon - b.derivative_constraints[j].control_horizon])

construct_A_columns_to_delete(b) ==
    SumSeq([j \in DOMAIN b.derivative_constraints |->
               b.prediction_horizon - b.derivative_constraints[j].control_horizon])

\* shape <<rows, columns>> of the matrix A.construct_A() returns
construct_A(b) ==
    LET joints == A_number_of_joints(b)
        N == b.prediction_horizon
        order == ControllerOrder(b)
        num_position_constraints == N * joints
        num_derivative_links == joints * N * (order - 1)
        number_of_derivative_rows == Len(b.derivative_constraints) * N
        number_of_task_constr_rows == Len(b.constraints)
        number_of_non_slack_columns == joints * N * order
    IN <<num_position_constraints + num_derivative_links + number_of_derivative_rows
           + number_of_task_constr_rows - construct_A_rows_to_delete(b),
         number_of_non_slack_columns + number_of_derivative_rows
           + number_of_task_constr_rows - construct_A_columns_to_delete(b)>>

----------------------------------------------------------------------------
(* QPController._construct_big_ass_M: one controller build *)

NotBuilt == [status |-> "none"]

_construct_big_ass_M(b) ==
    IF ~construct_A_asserts(b)
    THEN [status |-> "AssertionError"]
    ELSE [status |-> "built",
          order |-> ControllerOrder(b),
          H_height |-> H_compute_height(b),
          weights |-> H_weights(b),
          b_names |-> B_call(b),
          bA_names |-> BA_call(b),
          A_height |-> A_compute_height(b),
          A_width |-> A_compute_width(b),
          A_shape |-> construct_A(b)]

----------------------------------------------------------------------------
(* numpy slicing and slice assignment on one-dimensional arrays (sequences) *)

\* 0-based start of the slice a[-k:] of an array of length n (k >= 0):
\* -0 is 0, so a[-0:] is the whole array
NegStart(n, k) == IF k = 0 THEN 0 ELSE Max(n - k, 0)

\* a[-k:]
NpTail(a, k) == SubSeq(a, NegStart(Len(a), k) + 1, Len(a))

\* a[:k] for k >= 0
NpHead(a, k) == SubSeq(a, 1, Min(k, Len(a)))

\* a[k:] for k >= 0
NpFrom(a, k) == SubSeq(a, Min(k, Len(a)) + 1, Len(a))

\* 0-based end of the slice a[:-k] of an array of length n (k >= 0):
\* a[:-0] is a[:0], the empty array
NegEnd(n, k) == IF k = 0 THEN 0 ELSE Max(n - k, 0)

\* a[:-k] = True
NpSetHeadNegTrue(a, k) ==
    [i \in DOMAIN a |-> IF i <= NegEnd(Len(a), k) THEN TRUE ELSE a[i]]

\* a[:k] = True
NpSetHeadTrue(a, k) == [i \in DOMAIN a |-> IF i <= k THEN TRUE ELSE a[i]]

\* a[-k:] = v: the shapes must agree (or v has one element and is broadcast),
\* otherwise numpy raises ValueError
NpAssignTail(a, k, v) ==
    LET start == NegStart(Len(a), k)
        n == Len(a) - start
    IN IF n = Len(v)
       THEN [error |-> "none",
             value |-> [i \in DOMAIN a |-> IF i <= start THEN a[i] ELSE v[i - start]]]
       ELSE IF Len(v) = 1
       THEN [error |-> "none",
             value |-> [i \in DOMAIN a |-> IF i <= start THEN a[i] ELSE v[1]]]
       ELSE [error |-> "ValueError", value |-> a]

\* a[mask] for a boolean mask of the same length
NpMask(a, mask) ==
    LET idx == SelectSeq([i \in DOMAIN a |-> i], LAMBDA i : mask[i])
    IN [j \in DOMAIN idx |-> a[idx[j]]]

Ones(n) == [i \in 1..n |-> TRUE]

----------------------------------------------------------------------------
(* QPController.update_filters *)

\* What compile() fixes for the ticks of a controller: the labels of the
\* columns and rows and the counts update_filters reads from H and A.
CompiledLayout(b) ==
    [input |-> b,
     weight_names |-> H_weights(b),
     b_names |-> B_call(b),
     bA_names |-> BA_call(b),
     A_height |-> A_compute_height(b),
     A_width |-> A_compute_width(b),
     number_of_free_variables_with_horizon |-> H_number_of_free_variables_with_horizon(b),
     number_of_constraint_derivative_variables |->
         H_number_of_constraint_derivative_variables(b),
     number_of_constraint_error_variables |-> H_number_of_constraint_error_variables(b),
     num_position_limits |-> A_num_position_limits(b)]

\* faulty variant: nothing is filtered
QPController_update_filters_KeepAll(np_weights, m) ==
    [error |-> "none", b_filter |-> Ones(Len(np_weights)), bA_filter |-> Ones(m.A_height)]

\* np_weights: the evaluated weight row; m: the compiled layout.
\* Returns b_filter and bA_filter, or the error numpy raises.
QPController_update_filters(np_weights, m) ==
    LET b_filter0 == [i \in DOMAIN np_weights |-> np_weights[i] # 0]
        b_filter == NpSetHeadTrue(b_filter0, m.number_of_free_variables_with_horizon)
        bA_filter0 == Ones(m.A_height)
        ll == m.number_of_constraint_derivative_variables
              + m.number_of_constraint_error_variables
        assigned == NpAssignTail(bA_filter0, ll, NpTail(b_filter, ll))
    IN [error |-> assigned.error, b_filter |-> b_filter, bA_filter |-> assigned.value]

----------------------------------------------------------------------------
(* QPSWIFTFormatter.update_filters *)

MaxFmt == 1         \* slack columns per kind, and rows without slack per kind

\* The layout QPSWIFTFormatter.__init__ fixes: column and row counts and the
\* filters of the finite row bounds.
FormatterLayouts ==
    {f \in [num_non_slack_variables : 1..(MaxFmt + 1),
            num_eq_slack_variables : 0..MaxFmt,
            num_neq_slack_variables : 0..MaxFmt,
            num_eq_constraints : 0..(2 * MaxFmt),
            num_neq_constraints : 0..(2 * MaxFmt),
            nlbA_inf_filter : SeqsUpTo(BOOLEAN, 0, 2 * MaxFmt),
            ubA_inf_filter : SeqsUpTo(BOOLEAN, 0, 2 * MaxFmt)] :
        /\ f.num_eq_slack_variables <= f.num_eq_constraints
        /\ f.num_eq_constraints <= f.num_eq_slack_variables + MaxFmt
        /\ f.num_neq_slack_variables <= f.num_neq_constraints
        /\ f.num_neq_constraints <= f.num_neq_slack_variables + MaxFmt
        /\ Len(f.nlbA_inf_filter) = f.num_neq_constraints
        /\ Len(f.ubA_inf_filter) = f.num_neq_constraints}

FormatterColumns(f) ==
    f.num_non_slack_variables + f.num_eq_slack_variables + f.num_neq_slack_variables

\* weights: the evaluated weight row; f: the formatter's layout.
\* Returns weight_filter, bE_filter and the two halves of bA_filter, or the
\* error numpy raises.
QPSWIFTFormatter_update_filters(weights, f) ==
    LET num_slack_variables == f.num_eq_slack_variables + f.num_neq_slack_variables
        weight_filter == NpSetHeadNegTrue([i \in DOMAIN weights |-> weights[i] # 0],
                                          num_slack_variables)
        slack_part == NpTail(weight_filter, num_slack_variables)
        bE_part == NpHead(slack_part, f.num_eq_slack_variables)
        bA_part == NpFrom(slack_part, f.num_eq_slack_variables)
        num_filtered_eq_constraints == Cardinality({i \in DOMAIN bE_part : ~bE_part[i]})
        bE == IF num_filtered_eq_constraints > 0
              THEN NpAssignTail(Ones(f.num_eq_constraints), Len(bE_part), bE_part)
              ELSE [error |-> "none", value |-> Ones(f.num_eq_constraints)]
        half == IF Len(bA_part) > 0
                THEN NpAssignTail(Ones(f.num_neq_constraints), Len(bA_part), bA_part)
                ELSE [error |-> "none", value |-> Ones(f.num_neq_constraints)]
        nlbA_filter_half == IF Len(bA_part) > 0 /\ half.error = "none"
                            THEN NpMask(half.value, f.nlbA_inf_filter) ELSE half.value
        ubA_filter_half == IF Len(bA_part) > 0 /\ half.error = "none"
                           THEN NpMask(half.value, f.ubA_inf_filter) ELSE half.value
    IN [error |-> IF bE.error # "none" THEN bE.error ELSE half.error,
        weight_filter |-> weight_filter,
        bE_filter |-> bE.value,
        nlbA_filter_half |-> nlbA_filter_half,
        ubA_filter_half |-> ubA_filter_half,
        bA_filter |-> nlbA_filter_half \o ubA_filter_half]

----------------------------------------------------------------------------
(* tasks/task.py: class Task, monitor gating *)

Monitors == {"m1", "m2"}
ConstraintNames == {"c1"}
DeclaredWeights == {1, 2}
ErrorBounds == {1}
MaxMonitors == 2        \* monitors registered on one task, over its three lists
MaxRetrievals == 2      \* retrievals of constraints from one task

\* an assignment of observation states to the monitors
MonitorStates == [Monitors -> {0, 1}]

RECURSIVE ProdSeq(_)
ProdSeq(s) == IF s = <<>> THEN 1 ELSE Head(s) * ProdSeq(Tail(s))

\* A quadratic weight is a symbolic expression: the declared weight times a
\* sequence of factors, each the state symbol of one monitor or the
\* complement of the product of the state symbols of a list of monitors.
get_state_expression(m) == [kind |-> "state", monitors |-> <<m>>]

\* faulty variant: an end gate that is not 0 or 1
one_minus_end_weight_Plus(end_weight) == 2 - end_weight

one_minus_end_weight(end_weight) == 1 - end_weight

end_weight_value(monitors, states) ==
    ProdSeq([i \in DOMAIN monitors |-> states[monitors[i]]])

FactorValue(f, states) ==
    IF f.kind = "state" THEN states[f.monitors[1]]
    ELSE one_minus_end_weight(end_weight_value(f.monitors, states))

\* the value of a weight expression under an assignment of monitor states
EvalWeight(weight, states) ==
    weight.declared
    * ProdSeq([i \in DOMAIN weight.factors |-> FactorValue(weight.factors[i], states)])

DeclaredWeight(x) == [declared |-> x, factors |-> <<>>]

\* the factors one pass of _apply_monitors_to_constraints multiplies onto a
\* quadratic weight
GateFactors(t) ==
    [i \in DOMAIN t.start_monitors |-> get_state_expression(t.start_monitors[i])]
    \o [i \in DOMAIN t.hold_monitors |-> get_state_expression(t.hold_monitors[i])]
    \o (IF t.end_monitors # <<>>
        THEN <<[kind |-> "end", monitors |-> t.end_monitors]>>
        ELSE <<>>)

\* constraints: the dict of one kind (name -> constraint). The weight of each
\* constraint object is multiplied in place, and the same objects are returned.
_apply_monitors_to_constraints(t, constraints) ==
    [n \in DOMAIN constraints |->
        [constraints[n] EXCEPT !.quadratic_weight.factors = @ \o GateFactors(t)]]

NoRetrieval == [kind |-> "none"]

\* Task.__init__
NewTask ==
    [status |-> "task",
     eq_constraints |-> <<>>, neq_constraints |-> <<>>, derivative_constraints |-> <<>>,
     start_monitors |-> <<>>, hold_monitors |-> <<>>, end_monitors |-> <<>>,
     retrievals |-> 0,
     last |-> NoRetrieval]

NumMonitors(t) == Len(t.start_monitors) + Len(t.hold_monitors) + Len(t.end_monitors)

Raised(t, e) == [t EXCEPT !.last = [kind |-> e]]

NewConstraint(weight, bound) ==
    [quadratic_weight |-> DeclaredWeight(weight), bound |-> bound]

Put(dict, name, c) == [n \in DOMAIN dict \cup {name} |-> IF n = name THEN c ELSE dict[n]]

add_start_monitors_monitor(t, m) ==
    IF m \in Range(t.start_monitors) THEN Raised(t, "AttributeError")
    ELSE [t EXCEPT !.start_monitors = Append(@, m), !.last = [kind |-> "add_monitor"]]

add_hold_monitors_monitor(t, m) ==
    IF m \in Range(t.hold_monitors) THEN Raised(t, "AttributeError")
    ELSE [t EXCEPT !.hold_monitors = Append(@, m), !.last = [kind |-> "add_monitor"]]

add_end_monitors_monitor(t, m) ==
    IF m \in Range(t.end_monitors) THEN Raised(t, "AttributeError")
    ELSE [t EXCEPT !.end_monitors = Append(@, m), !.last = [kind |-> "add_monitor"]]

\* what an add_*_constraint call leaves in `last`: the outcome ("add_constraint"
\* or the exception raised), the map it addressed, the name and whether the
\* expression had shape (1, 1)
AddOutcome(t, outcome, op, name, scalar) ==
    [t EXCEPT !.last = [kind |-> outcome, op |-> op, name |-> name, scalar |-> scalar]]

\* an existing entry of the same name is replaced
add_equality_constraint(t, name, weight, bound, scalar) ==
    IF ~scalar THEN AddOutcome(t, "GoalInitalizationException", "eq", name, scalar)
    ELSE AddOutcome([t EXCEPT !.eq_constraints = Put(@, name, NewConstraint(weight, bound))],
                    "add_constraint", "eq", name, scalar)

add_inequality_constraint(t, name, weight, bound, scalar) ==
    IF ~scalar THEN AddOutcome(t, "GoalInitalizationException", "neq", name, scalar)
    ELSE IF name \in DOMAIN t.neq_constraints
    THEN AddOutcome(t, "KeyError", "neq", name, scalar)
    ELSE AddOutcome([t EXCEPT !.neq_constraints = Put(@, name, NewConstraint(weight, bound))],
                    "add_constraint", "neq", name, scalar)

\* the shape of the expression is not looked at
add_velocity_constraint(t, name, weight, bound, scalar) ==
    IF name \in DOMAIN t.derivative_constraints
    THEN AddOutcome(t, "KeyError", "derivative", name, scalar)
    ELSE AddOutcome([t EXCEPT !.derivative_constraints =
                                  Put(@, name, NewConstraint(weight, bound))],
                    "add_constraint", "derivative", name, scalar)

\* what a getter leaves in `last`: the dict before the call, the returned
\* constraints and the monitor lists the gate was built from
Retrieved(t, kind, before, returned) ==
    [kind |-> kind, before |-> before, returned |-> returned,
     start_monitors |-> t.start_monitors, hold_monitors |-> t.hold_monitors,
     end_monitors |-> t.end_monitors]

get_eq_constraints(t) ==
    LET out == _apply_monitors_to_constraints(t, t.eq_constraints)
    IN [t EXCEPT !.eq_constraints = out, !.retrievals = @ + 1,
                 !.last = Retrieved(t, "get_eq_constraints", t.eq_constraints, out)]

get_neq_constraints(t) ==
    LET out == _apply_monitors_to_constraints(t, t.neq_constraints)
    IN [t EXCEPT !.neq_constraints = out, !.retrievals = @ + 1,
                 !.last = Retrieved(t, "get_neq_constraints", t.neq_constraints, out)]

get_derivative_constraints_of_task(t) ==
    LET out == _apply_monitors_to_constraints(t, t.derivative_constraints)
    IN [t EXCEPT !.derivative_constraints = out, !.retrievals = @ + 1,
                 !.last = Retrieved(t, "get_derivative_constraints", t.derivative_constraints, out)]

Getters == {"get_eq_constraints", "get_neq_constraints", "get_derivative_constraints"}

----------------------------------------------------------------------------
(* Values of the parts a specification does not exercise *)

NoSolver == [status |-> "none"]
NoCtrl == [status |-> "none"]
NoTask == [status |-> "none"]
NoFilt == [status |-> "none"]

----------------------------------------------------------------------------
(* Specification of the assembler: one build per input *)

InitBuild ==
    /\ build \in [input : BuildInputs, result : {NotBuilt}]
    /\ solver = NoSolver
    /\ ctrl = NoCtrl
    /\ task = NoTask
    /\ filt = NoFilt

\* QPController.compile(): builds the four blocks from the registered input
Compile ==
    /\ build.result.status = "none"
    /\ build' = [build EXCEPT !.result = _construct_big_ass_M(build.input)]
    /\ UNCHANGED <<solver, ctrl, task, filt>>

NextBuild == Compile

SpecBuild == InitBuild /\ [][NextBuild]_vars

\* C1: for every build, width(A) = height(H) = number of entries of B, and
\* height(A) = number of entries of BA (free variables may differ in their
\* highest derivative and may or may not have position limits; control
\* horizons lie in 1..N).
C1_DimensionInvariant ==
    build.result.status = "built" =>
        /\ build.result.A_width = build.result.H_height
        /\ build.result.H_height = Len(build.result.weights)
        /\ build.result.H_height = Len(build.result.b_names)
        /\ build.result.A_height = Len(build.result.bA_names)
        /\ build.result.A_shape = <<build.result.A_height, build.result.A_width>>

----------------------------------------------------------------------------
(* Exceptions (giskardpy.exceptions): Exception > QPSolverException >      *)
(* InfeasibleException > {HardConstraintsViolatedException,                *)
(* OutOfJointLimitsException}                                              *)

ExceptionKinds == {"Exception", "QPSolverException", "InfeasibleException",
                   "HardConstraintsViolatedException", "OutOfJointLimitsException"}

\* isinstance(e, cls) for an exception of kind e
IsInstance(e, cls) ==
    CASE cls = "Exception" -> e \in ExceptionKinds
      [] cls = "QPSolverException" -> e \in ExceptionKinds \ {"Exception"}
      [] cls = "InfeasibleException" ->
            e \in {"InfeasibleException", "HardConstraintsViolatedException",
                   "OutOfJointLimitsException"}
      [] OTHER -> e = cls

\* What one backend call (solver_call) can do: return a solution or raise
BackendOutcomes == {"ok", "QPSolverException", "InfeasibleException", "Exception"}

----------------------------------------------------------------------------
(* class QPSolver / QPSWIFTFormatter: solve and relaxed retry *)

MaxBudget == 3      \* initial retries_with_relaxed_constraints
MaxCalls == 4       \* solve_and_retry calls on one solver instance

\* faulty variant: a failed relaxed solve does not give the decrement back
compute_violated_constraints_except_NoRestore(budget, probe) == budget

\* QPSWIFTFormatter.compute_violated_constraints, the try block: the solve
\* of the problem with relaxed slack bounds fails with exception `probe`.
\* Returns the budget afterwards.
compute_violated_constraints_except(budget, probe) ==
    IF IsInstance(probe, "QPSolverException") THEN budget + 1 ELSE budget

\* faulty variant: an exhausted budget is set back to one more attempt
relaxed_problem_data_to_qpSWIFT_format_Refill(budget, probe, violated) ==
    LET b1 == budget - 1 IN
    IF b1 <= 0
    THEN [budget |-> 2, raised |-> "HardConstraintsViolatedException", backend |-> <<>>]
    ELSE IF probe # "ok"
    THEN [budget |-> compute_violated_constraints_except(b1, probe), raised |-> probe,
          backend |-> <<probe>>]
    ELSE IF violated
    THEN [budget |-> b1, raised |-> "none", backend |-> <<probe>>]
    ELSE [budget |-> b1 + 1, raised |-> "InfeasibleException", backend |-> <<probe>>]

\* QPSWIFTFormatter.relaxed_problem_data_to_qpSWIFT_format.
\* probe: outcome of the backend call on the relaxed problem; violated: some
\* non-slack bound is violated by its solution. Returns the budget afterwards,
\* the exception raised ("none": the relaxed problem data are returned) and
\* the outcomes of the backend calls made.
relaxed_problem_data_to_qpSWIFT_format(budget, probe, violated) ==
    LET b1 == budget - 1 IN
    IF b1 <= 0
    THEN [budget |-> b1, raised |-> "HardConstraintsViolatedException", backend |-> <<>>]
    ELSE IF probe # "ok"
    THEN [budget |-> compute_violated_constraints_except(b1, probe), raised |-> probe,
          backend |-> <<probe>>]
    ELSE IF violated
    THEN [budget |-> b1, raised |-> "none", backend |-> <<probe>>]
    ELSE [budget |-> b1 + 1, raised |-> "InfeasibleException", backend |-> <<probe>>]

\* QPSolver.solve(substitutions, relax_hard_constraints): evaluate, split and
\* filter, format (relaxed or not), call the backend with outcome `final`.
solve(budget, relax, probe, violated, final) ==
    IF ~relax
    THEN [budget |-> budget, raised |-> IF final = "ok" THEN "none" ELSE final,
          backend |-> <<final>>]
    ELSE LET f == relaxed_problem_data_to_qpSWIFT_format(budget, probe, violated) IN
         IF f.raised # "none"
         THEN f
         ELSE [budget |-> f.budget, raised |-> IF final = "ok" THEN "none" ELSE final,
               backend |-> f.backend \o <<final>>]

\* QPSolver.solve_and_retry. first: outcome of the backend call of the normal
\* solve. Returns the budget, the result ("ok" or the exception raised), which
\* attempt the raised exception object comes from, and the call's history.
solve_and_retry(budget, first, probe, violated, final) ==
    LET s1 == solve(budget, FALSE, "ok", FALSE, first) IN
    IF s1.raised = "none"
    THEN [budget |-> budget, result |-> "ok", origin |-> "none", first |-> "ok",
          relaxed |-> 0, relaxed_raised |-> "none", backend |-> s1.backend]
    ELSE IF ~IsInstance(s1.raised, "QPSolverException")
    THEN [budget |-> budget, result |-> s1.raised, origin |-> "first", first |-> s1.raised,
          relaxed |-> 0, relaxed_raised |-> "none", backend |-> s1.backend]
    ELSE LET s2 == solve(budget, TRUE, probe, violated, final) IN
         [budget |-> s2.budget,
          result |-> IF s2.raised = "none" THEN "ok"
                     ELSE IF IsInstance(s2.raised, "InfeasibleException")
                     THEN IF IsInstance(s2.raised, "HardConstraintsViolatedException")
                          THEN s2.raised ELSE s1.raised
                     ELSE s2.raised,
          origin |-> IF s2.raised = "none" THEN "none"
                     ELSE IF IsInstance(s2.raised, "InfeasibleException")
                     THEN IF IsInstance(s2.raised, "HardConstraintsViolatedException")
                          THEN "relaxed" ELSE "first"
                     ELSE "relaxed",
          first |-> s1.raised, relaxed |-> 1, relaxed_raised |-> s2.raised,
          backend |-> s1.backend \o s2.backend]

NoCall == [budget |-> 0, result |-> "none", origin |-> "none", first |-> "none",
           relaxed |-> 0, relaxed_raised |-> "none", backend |-> <<>>]

\* every backend call of the sequence failed as a QP failure
AllQPFailures(backend) ==
    \A i \in DOMAIN backend : IsInstance(backend[i], "QPSolverException")

InitSolver ==
    /\ solver \in [status : {"ready"},
                   retries_with_relaxed_constraints : 0..MaxBudget,
                   k0 : 0..MaxBudget,
                   calls : {0}, relaxed_attempts : {0}, consumed : {0}, hard_at : {0},
                   all_failed : {TRUE}, last : {NoCall}]
    /\ solver.k0 = solver.retries_with_relaxed_constraints
    /\ build = [input |-> <<>>, result |-> NotBuilt]
    /\ ctrl = NoCtrl
    /\ task = NoTask
    /\ filt = NoFilt

\* one call of solve_and_retry, with the backend's behaviour chosen freely
SolveAndRetry ==
    /\ solver.calls < MaxCalls
    /\ \E first, probe, final \in BackendOutcomes, violated \in BOOLEAN :
         LET r == solve_and_retry(solver.retries_with_relaxed_constraints,
                                  first, probe, violated, final)
             attempts == solver.relaxed_attempts + r.relaxed
             hard == r.relaxed = 1 /\ r.relaxed_raised = "HardConstraintsViolatedException"
             kept == r.relaxed = 1 /\ ~hard
                     /\ r.budget < solver.retries_with_relaxed_constraints
         IN solver' = [solver EXCEPT
                 !.retries_with_relaxed_constraints = r.budget,
                 !.calls = @ + 1,
                 !.relaxed_attempts = attempts,
                 !.consumed = IF kept /\ solver.hard_at = 0 THEN @ + 1 ELSE @,
                 !.hard_at = IF hard /\ @ = 0 THEN attempts ELSE @,
                 !.all_failed = @ /\ AllQPFailures(r.backend),
                 !.last = r]
    /\ UNCHANGED <<build, ctrl, task, filt>>

NextSolver == SolveAndRetry

SpecSolver == InitSolver /\ [][NextSolver]_vars

C3_OriginalExceptionPropagates ==
    (solver.status = "ready" /\ solver.calls > 0) =>
        /\ solver.last.first = "ok" =>
              (solver.last.result = "ok" /\ solver.last.relaxed = 0)
        /\ (solver.last.first # "ok" /\ IsInstance(solver.last.first, "QPSolverException"))
              => solver.last.relaxed = 1
        /\ (solver.last.relaxed = 1
              /\ solver.last.relaxed_raised \notin {"none", "HardConstraintsViolatedException"})
              => (solver.last.origin = "first" /\ solver.last.result = solver.last.first)

----------------------------------------------------------------------------
(* Specification of one task: registration of monitors and constraints and
   retrieval of the gated constraints, in any order *)

InitTask ==
    /\ task = NewTask
    /\ build = [input |-> <<>>, result |-> NotBuilt]
    /\ solver = NoSolver
    /\ ctrl = NoCtrl
    /\ filt = NoFilt

AddStartMonitor ==
    /\ NumMonitors(task) < MaxMonitors
    /\ \E m \in Monitors : task' = add_start_monitors_monitor(task, m)
    /\ UNCHANGED <<build, solver, ctrl, filt>>

AddHoldMonitor ==
    /\ NumMonitors(task) < MaxMonitors
    /\ \E m \in Monitors : task' = add_hold_monitors_monitor(task, m)
    /\ UNCHANGED <<build, solver, ctrl, filt>>

AddEndMonitor ==
    /\ NumMonitors(task) < MaxMonitors
    /\ \E m \in Monitors : task' = add_end_monitors_monitor(task, m)
    /\ UNCHANGED <<build, solver, ctrl, filt>>

AddEqualityConstraint ==
    /\ task.retrievals < MaxRetrievals
    /\ \E name \in ConstraintNames, weight \in DeclaredWeights, bound \in ErrorBounds,
          scalar \in BOOLEAN :
           task' = add_equality_constraint(task, name, weight, bound, scalar)
    /\ UNCHANGED <<build, solver, ctrl, filt>>

AddInequalityConstraint ==
    /\ task.retrievals < MaxRetrievals
    /\ \E name \in ConstraintNames, weight \in DeclaredWeights, bound \in ErrorBounds,
          scalar \in BOOLEAN :
           task' = add_inequality_constraint(task, name, weight, bound, scalar)
    /\ UNCHANGED <<build, solver, ctrl, filt>>

AddVelocityConstraint ==
    /\ task.retrievals < MaxRetrievals
    /\ \E name \in ConstraintNames, weight \in DeclaredWeights, bound \in ErrorBounds,
          scalar \in BOOLEAN :
           task' = add_velocity_constraint(task, name, weight, bound, scalar)
    /\ UNCHANGED <<build, solver, ctrl, filt>>

GetEqConstraints ==
    /\ task.retrievals < MaxRetrievals
    /\ task' = get_eq_constraints(task)
    /\ UNCHANGED <<build, solver, ctrl, filt>>

GetNeqConstraints ==
    /\ task.retrievals < MaxRetrievals
    /\ task' = get_neq_constraints(task)
    /\ UNCHANGED <<build, solver, ctrl, filt>>

GetDerivativeConstraints ==
    /\ task.retrievals < MaxRetrievals
    /\ task' = get_derivative_constraints_of_task(task)
    /\ UNCHANGED <<build, solver, ctrl, filt>>

NextTask ==
    \/ AddStartMonitor
    \/ AddHoldMonitor
    \/ AddEndMonitor
    \/ AddEqualityConstraint
    \/ AddInequalityConstraint
    \/ AddVelocityConstraint
    \/ GetEqConstraints
    \/ GetNeqConstraints
    \/ GetDerivativeConstraints

SpecTask == InitTask /\ [][NextTask]_vars

\* the gate the lists of monitors recorded in a retrieval stand for:
\* product of start states * product of hold states * (1 - product of end
\* states), the last factor only if there is an end monitor
GateValue(r, states) ==
    end_weight_value(r.start_monitors, states)
    * end_weight_value(r.hold_monitors, states)
    * (IF r.end_monitors # <<>>
       THEN 1 - end_weight_value(r.end_monitors, states) ELSE 1)

\* C8: every retrieval returns exactly the registered constraints of the kind
\* (same names), each with weight = declared weight * product of the start
\* monitor states * product of the hold monitor states * (1 - product of the
\* end monitor states), for every assignment of monitor states.
C8_RetrievalReturnsDeclaredTimesGate ==
    task.status = "task" /\ task.last.kind \in Getters =>
        /\ DOMAIN task.last.returned = DOMAIN task.last.before
        /\ \A n \in DOMAIN task.last.returned : \A states \in MonitorStates :
               EvalWeight(task.last.returned[n].quadratic_weight, states)
                   = task.last.returned[n].quadratic_weight.declared
                     * GateValue(task.last, states)

\* C9: a retrieval that directly follows a retrieval of the same constraints
\* under the same lists of monitors returns, for every assignment of monitor
\* states in {0,1}, the same weight values and the same bounds.
C9_GatingIdempotentInValue ==
    [][(/\ task.status = "task"
        /\ task.last.kind \in Getters
        /\ task'.last.kind = task.last.kind
        /\ task'.retrievals = task.retrievals + 1
        /\ task'.last.before = task.last.returned
        /\ task'.last.start_monitors = task.last.start_monitors
        /\ task'.last.hold_monitors = task.last.hold_monitors
        /\ task'.last.end_monitors = task.last.end_monitors)
       => \A n \in DOMAIN task.last.returned :
            /\ task'.last.returned[n].bound = task.last.returned[n].bound
            /\ \A states \in MonitorStates :
                 EvalWeight(task'.last.returned[n].quadratic_weight, states)
                     = EvalWeight(task.last.returned[n].quadratic_weight, states)]_vars

\* a constraint returned by a second retrieval under unchanged, non-empty
\* lists of monitors (with an end monitor): its weight carries the gate twice
C9_Witness ==
    /\ task.status = "task"
    /\ task.last.kind \in Getters
    /\ task.retrievals >= 2
    /\ task.last.end_monitors # <<>>
    /\ task.last.start_monitors # <<>>
    /\ \E n \in DOMAIN task.last.returned :
          /\ n \in DOMAIN task.last.before
          /\ task.last.before[n].quadratic_weight.factors = GateFactors(task.last)
          /\ task.last.returned[n].quadratic_weight.factors
                 = GateFactors(task.last) \o GateFactors(task.last)

----------------------------------------------------------------------------
(* Specification of the per-tick filters: a controller build or a formatter
   layout is fixed, and every tick evaluates a weight row and updates the
   filters from it *)

MaxFilterWidth == 6     \* columns of the builds whose filters are explored

\* builds that compile and whose blocks agree on the number of columns
FilterInputs ==
    {b \in BuildInputs :
        /\ construct_A_asserts(b)
        /\ H_compute_height(b) = A_compute_width(b)
        /\ Len(BA_call(b)) = A_compute_height(b)
        /\ A_compute_width(b) <= MaxFilterWidth}

InitFilter ==
    /\ \/ \E b \in FilterInputs :
              filt = [status |-> "filter", kind |-> "controller", layout |-> CompiledLayout(b),
                      ran |-> FALSE, weights |-> <<>>, result |-> <<>>]
       \/ \E f \in FormatterLayouts :
              filt = [status |-> "filter", kind |-> "formatter", layout |-> f,
                      ran |-> FALSE, weights |-> <<>>, result |-> <<>>]
    /\ build = [input |-> <<>>, result |-> NotBuilt]
    /\ solver = NoSolver
    /\ ctrl = NoCtrl
    /\ task = NoTask

\* QPController.evaluate_and_create_np_data up to update_filters
ControllerUpdateFilters ==
    /\ filt.kind = "controller"
    /\ \E np_weights \in [1..filt.layout.A_width -> {0, 1}] :
           filt' = [filt EXCEPT !.ran = TRUE, !.weights = np_weights,
                        !.result = QPController_update_filters(np_weights, filt.layout)]
    /\ UNCHANGED <<build, solver, ctrl, task>>

\* QPSWIFTFormatter.split_and_filter_results up to update_filters
FormatterUpdateFilters ==
    /\ filt.kind = "formatter"
    /\ \E weights \in [1..FormatterColumns(filt.layout) -> {0, 1}] :
           filt' = [filt EXCEPT !.ran = TRUE, !.weights = weights,
                        !.result = QPSWIFTFormatter_update_filters(weights, filt.layout)]
    /\ UNCHANGED <<build, solver, ctrl, task>>

NextFilter == ControllerUpdateFilters \/ FormatterUpdateFilters

SpecFilter == InitFilter /\ [][NextFilter]_vars

\* the column a slack row of the controller is paired with: the column of the
\* same derivative-constraint step, or the error column of the same constraint
PairedColumn(b, row) ==
    LET label == IF row[1] = "e" THEN <<"err", row[2]>> ELSE row
    IN CHOOSE i \in DOMAIN H_weights(b) : H_weights(b)[i] = label

ControllerFilterAsSpecified(b, w, r) ==
    LET nonslack == A_number_of_joints(b) * b.prediction_horizon * ControllerOrder(b)
        rows == BA_call(b)
    IN /\ r.error = "none"
       /\ Len(r.b_filter) = Len(w)
       /\ \A i \in DOMAIN w : r.b_filter[i] = (i <= nonslack \/ w[i] # 0)
       /\ Len(r.bA_filter) = Len(rows)
       /\ \A j \in DOMAIN rows :
             IF rows[j][1] \in {"p_limit", "last", "link"}
             THEN j \in DOMAIN r.bA_filter /\ r.bA_filter[j]
             ELSE j \in DOMAIN r.bA_filter
                  /\ r.bA_filter[j] = (w[PairedColumn(b, rows[j])] # 0)

FormatterFilterAsSpecified(f, w, r) ==
    LET eq_rows_without_slack == f.num_eq_constraints - f.num_eq_slack_variables
        neq_rows_without_slack == f.num_neq_constraints - f.num_neq_slack_variables
        half == [j \in 1..f.num_neq_constraints |->
                    \/ j <= neq_rows_without_slack
                    \/ w[f.num_non_slack_variables + f.num_eq_slack_variables
                         + (j - neq_rows_without_slack)] # 0]
    IN /\ r.error = "none"
       /\ Len(r.weight_filter) = Len(w)
       /\ \A i \in DOMAIN w :
             r.weight_filter[i] = (i <= f.num_non_slack_variables \/ w[i] # 0)
       /\ r.bE_filter = [j \in 1..f.num_eq_constraints |->
                            \/ j <= eq_rows_without_slack
                            \/ w[f.num_non_slack_variables + (j - eq_rows_without_slack)] # 0]
       /\ r.nlbA_filter_half = NpMask(half, f.nlbA_inf_filter)
       /\ r.ubA_filter_half = NpMask(half, f.ubA_inf_filter)

\* C7: per tick the column filter keeps every column of the non-slack prefix
\* whatever its weight and keeps a slack column iff its evaluated weight is
\* non-zero; the row filter drops exactly the constraint rows paired with
\* dropped slack columns and keeps every position-limit and derivative-link
\* row; for every build, also one without any slack column.
C7_FiltersAsSpecified ==
    filt.status = "filter" /\ filt.ran =>
        IF filt.kind = "controller"
        THEN ControllerFilterAsSpecified(filt.layout.input, filt.weights, filt.result)
        ELSE FormatterFilterAsSpecified(filt.layout, filt.weights, filt.result)

\* the same statement for the builds and layouts that have a slack column of
\* every kind they have rows of
C7_FiltersAsSpecifiedWithSlack ==
    filt.status = "filter" /\ filt.ran =>
        IF filt.kind = "controller"
        THEN H_number_of_constraint_derivative_variables(filt.layout.input)
               + H_number_of_constraint_error_variables(filt.layout.input) > 0
             => ControllerFilterAsSpecified(filt.layout.input, filt.weights, filt.result)
        ELSE filt.layout.num_neq_slack_variables > 0
             => FormatterFilterAsSpecified(filt.layout, filt.weights, filt.result)

----------------------------------------------------------------------------
(* QPController.get_cmd: one control tick *)

MaxCtrlVars == 1        \* free variables of the controllers that tick
MaxCtrlCons == 1        \* constraints (task and derivative) of these controllers
MaxCtrlN == 1           \* prediction horizon of these controllers

\* Controllers whose free variables all have order velocity; their task and
\* derivative (velocity) constraints belong to one task gated by an end monitor.
CtrlInputs ==
    UNION {{b \in [free_variables : SeqsUpTo([order : {velocity}, haspos : BOOLEAN],
                                              1, MaxCtrlVars),
                   constraints : SeqsUpTo(TaskConstraints(N), 0, MaxCtrlCons),
                   derivative_constraints :
                       SeqsUpTo([derivative : {velocity}, control_horizon : 1..N],
                                0, MaxCtrlCons),
                   prediction_horizon : {N}] :
               Len(b.constraints) + Len(b.derivative_constraints) <= MaxCtrlCons}
           : N \in 1..MaxCtrlN}

\* current joint positions a tick may be called with; the position limits of a
\* position-limited variable are -1 and 1
Positions == {-3, 0, 3}

\* the substitutions of one tick: the position of every free variable and the
\* observation state of the end monitor. The position of a variable without
\* position limits enters no row of the problem and is kept at 0.
Substitutions(b) ==
    [pos : {p \in [DOMAIN b.free_variables -> Positions] :
                \A i \in DOMAIN p : ~b.free_variables[i].haspos => p[i] = 0},
     mon : {0, 1}]

\* FreeVariable.get_lower_limit / get_upper_limit, and their products with the
\* sample period and its powers (one unit of time)
get_lower_limit(v, derivative) == 0 - 1

get_upper_limit(v, derivative) == 1

\* the task all constraints of the controller come from
CtrlTask == add_end_monitors_monitor(NewTask, "m1")

\* the weight expression of a constraint as retrieved from the task
RetrievedWeight(quadratic_weight) ==
    [declared |-> quadratic_weight, factors |-> GateFactors(CtrlTask)]

\* normalized_weight of a constraint: the quadratic weight times a positive
\* factor that depends on the constraint only
Constraint_normalized_weight(weight, c) == weight * c.control_horizon

\* the entry of H.weights() with the given label, evaluated
EvaluatedWeight(b, quadratic_weight, label, subs) ==
    LET states == [m \in Monitors |-> IF m = "m1" THEN subs.mon ELSE 0]
        gated == EvalWeight(RetrievedWeight(quadratic_weight), states)
    IN CASE label[1] = "fv" -> 1
         [] label[1] = "dc" ->
                Constraint_normalized_weight(gated, b.derivative_constraints[label[4]])
         [] label[1] = "err" ->
                Constraint_normalized_weight(gated, b.constraints[label[2]])

\* faulty variant: with default limits the position-limit rows always get
\* the reachable corridor
EvaluatedRowBounds_AlwaysCorridor(b, default_limits, label, subs) ==
    CASE label[1] = "p_limit" ->
           LET v == b.free_variables[label[3]]
               normal_lower_bound == get_lower_limit(v, position) - subs.pos[label[3]]
               normal_upper_bound == get_upper_limit(v, position) - subs.pos[label[3]]
               lower_vel == Min(get_upper_limit(v, velocity), get_upper_limit(v, acceleration))
               upper_vel == Max(get_lower_limit(v, velocity), get_lower_limit(v, acceleration))
           IN IF default_limits
              THEN <<lower_vel, upper_vel>>
              ELSE <<normal_lower_bound, normal_upper_bound>>
      [] label[1] = "dc" -> <<0 - 1, 1>>
      [] label[1] = "e" -> <<1, 1>>
      [] OTHER -> <<0, 0>>

\* the entries of BA.__call__() with the given label, evaluated: <<lbA, ubA>>
EvaluatedRowBounds(b, default_limits, label, subs) ==
    CASE label[1] = "p_limit" ->
           LET v == b.free_variables[label[3]]
               normal_lower_bound == get_lower_limit(v, position) - subs.pos[label[3]]
               normal_upper_bound == get_upper_limit(v, position) - subs.pos[label[3]]
               lower_vel == Min(get_upper_limit(v, velocity), get_upper_limit(v, acceleration))
               upper_vel == Max(get_lower_limit(v, velocity), get_lower_limit(v, acceleration))
           IN IF default_limits
              THEN <<IF normal_lower_bound > 0 THEN lower_vel ELSE normal_lower_bound,
                     IF normal_upper_bound < 0 THEN upper_vel ELSE normal_upper_bound>>
              ELSE <<normal_lower_bound, normal_upper_bound>>
      [] label[1] = "dc" -> <<0 - 1, 1>>
      [] label[1] = "e" -> <<1, 1>>
      [] OTHER -> <<0, 0>>

\* QPController.evaluate_and_create_np_data with the compiled matrix of the
\* given variant
evaluate_and_create_np_data(m, quadratic_weight, default_limits, subs) ==
    LET np_weights == [i \in DOMAIN m.weight_names |->
                          EvaluatedWeight(m.input, quadratic_weight, m.weight_names[i], subs)]
        bounds == [j \in DOMAIN m.bA_names |->
                      EvaluatedRowBounds(m.input, default_limits, m.bA_names[j], subs)]
        np_lbA == [j \in DOMAIN bounds |-> bounds[j][1]]
        np_ubA == [j \in DOMAIN bounds |-> bounds[j][2]]
        f == QPController_update_filters(np_weights, m)
    IN IF f.error # "none"
       THEN [error |-> f.error, np_weights |-> np_weights]
       ELSE [error |-> "none",
             np_weights |-> np_weights,
             b_filter |-> f.b_filter,
             bA_filter |-> f.bA_filter,
             np_weights_filtered |-> NpMask(np_weights, f.b_filter),
             filtered_b_names |-> NpMask(m.b_names, f.b_filter),
             filtered_bA_names |-> NpMask(m.bA_names, f.bA_filter),
             np_lbA_filtered |-> NpMask(np_lbA, f.bA_filter),
             np_ubA_filtered |-> NpMask(np_ubA, f.bA_filter)]

\* faulty variant: only the lower limits are looked at
_are_joint_limits_violated_LowerOnly(m, data) ==
    LET num_joint_with_position_limits == m.num_position_limits
        lbA == NpHead(data.np_lbA_filtered, num_joint_with_position_limits)
    IN \E i \in DOMAIN lbA : lbA[i] > 0

\* QPController._are_joint_limits_violated(percentage=0): TRUE iff a message
\* is returned
_are_joint_limits_violated(m, data) ==
    LET num_joint_with_position_limits == m.num_position_limits
        lbA == NpHead(data.np_lbA_filtered, num_joint_with_position_limits)
        ubA == NpHead(data.np_ubA_filtered, num_joint_with_position_limits)
    IN \/ \E i \in DOMAIN lbA : lbA[i] > 0
       \/ \E i \in DOMAIN ubA : ubA[i] < 0

\* the dimensions and labels evaluate_and_create_np_data slices the
\* evaluated matrix with (self.A.height, self.A.width and the names of
\* self.H, self.b and self.bA); _compile_big_ass_M fixes the same for the
\* matrix it compiles
LayoutDimensions(l) ==
    [A_height |-> l.A_height, A_width |-> l.A_width,
     weight_names |-> l.weight_names, b_names |-> l.b_names, bA_names |-> l.bA_names]

\* faulty variant: the default-limits build has one column more
construct_default_limits_layout_Wider(b) ==
    [CompiledLayout(b) EXCEPT !.A_width = @ + 1]

\* _construct_big_ass_M(default_limits=True) on the free variables and
\* constraints of the controller: H, B, BA and A are built anew; the flag
\* changes only the values BA puts into the position-limit rows
construct_default_limits_layout(b) ==
    CompiledLayout(b)

\* faulty variant: later calls do not exchange the two matrices
swap_compiled_matrices_NoExchange(c) ==
    IF c.compiled_big_ass_M_with_default_limits = "unset"
    THEN LET l == construct_default_limits_layout(c.layout.input)
         IN [c EXCEPT !.compiled_big_ass_M_with_default_limits = c.compiled_big_ass_M,
                      !.compiled_big_ass_M = "default",
                      !.layout = l,
                      !.compiled_dimensions = [@ EXCEPT !.default = LayoutDimensions(l)],
                      !.default_builds = @ + 1]
    ELSE c

\* QPController.__swap_compiled_matrices: the first call keeps the active
\* matrix aside and builds and compiles the default-limits one; later calls
\* exchange the two
swap_compiled_matrices(c) ==
    IF c.compiled_big_ass_M_with_default_limits = "unset"
    THEN LET l == construct_default_limits_layout(c.layout.input)
         IN [c EXCEPT !.compiled_big_ass_M_with_default_limits = c.compiled_big_ass_M,
                      !.compiled_big_ass_M = "default",
                      !.layout = l,
                      !.compiled_dimensions = [@ EXCEPT !.default = LayoutDimensions(l)],
                      !.default_builds = @ + 1]
    ELSE [c EXCEPT !.compiled_big_ass_M = c.compiled_big_ass_M_with_default_limits,
                   !.compiled_big_ass_M_with_default_limits = c.compiled_big_ass_M]

\* faulty variant: the hard violation is not recognised
is_hard_Never(e) == FALSE

\* get_cmd: isinstance(e_original, HardConstraintsViolatedException)
is_hard(e) == IsInstance(e, "HardConstraintsViolatedException")

\* the declared bound of that magnitude on every slack column, and the bound
\* _are_hard_limits_violated writes into its copies
DeclaredSlackLimit == 10
WidenedSlackLimit == 100

\* the entries of B.__call__() with the given label, evaluated: <<lb, ub>>
EvaluatedColumnBounds(b, label) ==
    IF label[1] = "fv"
    THEN <<get_lower_limit(b.free_variables[label[3]], label[4]),
           get_upper_limit(b.free_variables[label[3]], label[4])>>
    ELSE <<0 - DeclaredSlackLimit, DeclaredSlackLimit>>

\* evaluate_and_create_np_data: self.np_lb_filtered and self.np_ub_filtered
np_lb_filtered(m, data) ==
    NpMask([i \in DOMAIN m.b_names |-> EvaluatedColumnBounds(m.input, m.b_names[i])[1]],
           data.b_filter)

np_ub_filtered(m, data) ==
    NpMask([i \in DOMAIN m.b_names |-> EvaluatedColumnBounds(m.input, m.b_names[i])[2]],
           data.b_filter)

NoDiagnosis == [ran |-> FALSE]

\* faulty variant: the copies with the widened slack bounds are given to the
\* solver
are_hard_limits_violated_Widened(m, data, order) ==
    LET num_non_slack == Len(m.input.free_variables) * m.input.prediction_horizon * order
        num_of_slack == Len(np_lb_filtered(m, data)) - num_non_slack
        lb == NpAssignTail(np_lb_filtered(m, data), num_of_slack,
                           <<0 - WidenedSlackLimit>>).value
        ub == NpAssignTail(np_ub_filtered(m, data), num_of_slack,
                           <<WidenedSlackLimit>>).value
    IN [ran |-> TRUE, lb |-> lb, ub |-> ub, solve_lb |-> lb, solve_ub |-> ub]

\* QPController._are_hard_limits_violated up to the call of the solver: the
\* local copies lb and ub with the widened slack bounds, and the bounds the
\* solver is called with
are_hard_limits_violated(m, data, order) ==
    LET num_non_slack == Len(m.input.free_variables) * m.input.prediction_horizon * order
        num_of_slack == Len(np_lb_filtered(m, data)) - num_non_slack
        lb == NpAssignTail(np_lb_filtered(m, data), num_of_slack,
                           <<0 - WidenedSlackLimit>>).value
        ub == NpAssignTail(np_ub_filtered(m, data), num_of_slack,
                           <<WidenedSlackLimit>>).value
    IN [ran |-> TRUE, lb |-> lb, ub |-> ub,
        solve_lb |-> np_lb_filtered(m, data), solve_ub |-> np_ub_filtered(m, data)]

\* what qp_solver.solve_and_retry can do: return a solution or raise
SolveAndRetryOutcomes ==
    {"ok", "QPSolverException", "InfeasibleException", "HardConstraintsViolatedException"}

NoTick == [outcome |-> "none"]

NoDimensions == [A_height |-> 0, A_width |-> 0,
                 weight_names |-> <<>>, b_names |-> <<>>, bA_names |-> <<>>]

\* what one call of get_cmd leaves behind
Tick(c, subs, data, first, second, violation) ==
    [subs |-> subs,
     started_with |-> c.compiled_big_ass_M,
     had_default |-> c.compiled_big_ass_M_with_default_limits # "unset",
     np_weights |-> data.np_weights,
     qp_weights |-> IF data.error = "none" THEN data.np_weights_filtered ELSE <<>>,
     qp_b_names |-> IF data.error = "none" THEN data.filtered_b_names ELSE <<>>,
     qp_bA_names |-> IF data.error = "none" THEN data.filtered_bA_names ELSE <<>>,
     first |-> first, second |-> second, violation |-> violation,
     sliced |-> LayoutDimensions(c.layout),
     evaluated |-> c.compiled_dimensions[c.compiled_big_ass_M],
     retry_sliced |-> NoDimensions, retry_evaluated |-> NoDimensions,
     limits_violated |-> FALSE, swaps |-> 0, retries |-> 0, retry_with |-> "none",
     diagnosed |-> FALSE, diagnosis |-> NoDiagnosis,
     outcome |-> "none"]

\* QPController.get_cmd(substitutions).
\* first: what solve_and_retry does; second: what the one further
\* qp_solver.solve does (the default-limits retry or the hard-limit diagnosis);
\* violation: whether the diagnosis finds a slack bound violated.
get_cmd(c, subs, first, second, violation) ==
    LET m == c.layout
        data == evaluate_and_create_np_data(m, c.quadratic_weight,
                                            c.compiled_big_ass_M = "default", subs)
        tick == Tick(c, subs, data, first, second, violation)
    IN IF data.error # "none"
       THEN [c EXCEPT !.last = [tick EXCEPT !.first = "none", !.outcome = data.error]]
       ELSE IF first = "ok"
       THEN [c EXCEPT !.last = [tick EXCEPT !.outcome = "command"]]
       ELSE IF ~IsInstance(first, "InfeasibleException")
       THEN [c EXCEPT !.last = [tick EXCEPT !.outcome = first]]
       ELSE IF is_hard(first)
       THEN [c EXCEPT !.last = [tick EXCEPT !.outcome = first]]
       ELSE IF _are_joint_limits_violated(m, data)
       THEN LET swapped == swap_compiled_matrices(c)
                retry == evaluate_and_create_np_data(swapped.layout, c.quadratic_weight,
                             swapped.compiled_big_ass_M = "default", subs)
                restored == swap_compiled_matrices(swapped)
            IN [restored EXCEPT !.last =
                   [tick EXCEPT !.limits_violated = TRUE, !.swaps = 2, !.retries = 1,
                                !.retry_with = swapped.compiled_big_ass_M,
                                !.retry_sliced = LayoutDimensions(swapped.layout),
                                !.retry_evaluated =
                                    swapped.compiled_dimensions[swapped.compiled_big_ass_M],
                                !.outcome = IF retry.error = "none" /\ second = "ok"
                                            THEN "command"
                                            ELSE "OutOfJointLimitsException"]]
       ELSE [c EXCEPT !.last =
                [tick EXCEPT !.diagnosed = TRUE,
                             !.diagnosis =
                                 are_hard_limits_violated(m, data, ControllerOrder(m.input)),
                             !.outcome = IF second = "ok" /\ violation
                                         THEN "HardConstraintsViolatedException"
                                         ELSE first]]

\* QPController.__init__ and compile()
InitCtrl ==
    /\ \E b \in CtrlInputs :
          ctrl = [status |-> "ctrl", layout |-> CompiledLayout(b),
                  quadratic_weight |-> MaxOf(DeclaredWeights),
                  compiled_big_ass_M |-> "normal",
                  compiled_big_ass_M_with_default_limits |-> "unset",
                  compiled_dimensions |->
                      [normal |-> LayoutDimensions(CompiledLayout(b)),
                       default |-> NoDimensions],
                  default_builds |-> 0,
                  last |-> NoTick]
    /\ build = [input |-> <<>>, result |-> NotBuilt]
    /\ solver = NoSolver
    /\ task = NoTask
    /\ filt = NoFilt

GetCmd ==
    /\ \E subs \in Substitutions(ctrl.layout.input) : \E first \in SolveAndRetryOutcomes :
         \E second \in (IF first = "InfeasibleException"
                        THEN {"ok", "Exception"} ELSE {"ok"}) :
           \E violation \in (IF first = "InfeasibleException" /\ second = "ok"
                             THEN BOOLEAN ELSE {FALSE}) :
              ctrl' = get_cmd(ctrl, subs, first, second, violation)
    /\ UNCHANGED <<build, solver, task, filt>>

NextCtrl == GetCmd

SpecCtrl == InitCtrl /\ [][NextCtrl]_vars

\* some position-limited free variable lies outside its position limits
OutsidePositionLimits(b, subs) ==
    \E i \in DOMAIN b.free_variables :
        /\ b.free_variables[i].haspos
        /\ \/ subs.pos[i] < get_lower_limit(b.free_variables[i], position)
           \/ subs.pos[i] > get_upper_limit(b.free_variables[i], position)

Ticked == ctrl.status = "ctrl" /\ ctrl.last.outcome # "none"

\* C4: whenever get_cmd switched to the default-limits variant for a retry,
\* the normal-limits variant is active again when get_cmd returns or raises,
\* so every tick starts with the normal-limits variant active.
C4_NormalVariantRestored ==
    ctrl.status = "ctrl" =>
        /\ ctrl.compiled_big_ass_M = "normal"
        /\ Ticked => ctrl.last.started_with = "normal"
        /\ Ticked /\ ctrl.last.retries > 0 => ctrl.last.retry_with = "default"

\* a tick that retried with the default-limits variant and raised, in a
\* controller that had built the default-limits variant in an earlier tick
C4_Witness ==
    /\ Ticked
    /\ ctrl.last.had_default
    /\ ctrl.last.retry_with = "default"
    /\ ctrl.last.outcome = "OutOfJointLimitsException"

\* C5: a HardConstraintsViolatedException raised by solve_and_retry leaves
\* get_cmd unchanged: no default-limits retry, no swap of the compiled
\* variant, no other exception and no returned command in its place.
C5_HardPropagates ==
    Ticked /\ ctrl.last.first = "HardConstraintsViolatedException" =>
        /\ ctrl.last.outcome = "HardConstraintsViolatedException"
        /\ ctrl.last.swaps = 0
        /\ ctrl.last.retries = 0
        /\ ~ctrl.last.diagnosed

\* solve_and_retry raised HardConstraintsViolatedException while a
\* position-limited variable was outside its limits
C5_Witness ==
    /\ Ticked
    /\ ctrl.last.first = "HardConstraintsViolatedException"
    /\ OutsidePositionLimits(ctrl.layout.input, ctrl.last.subs)

ConstraintOfColumn(b, label) ==
    IF label[1] = "err" THEN b.constraints[label[2]]
    ELSE b.derivative_constraints[label[4]]

RowOfColumn(label) == IF label[1] = "err" THEN <<"e", label[2]>> ELSE label

\* C10: for a constraint of a task gated by an end monitor, a tick in which the
\* monitor state is false solves a QP with the declared (normalized) weight of
\* the constraint, and a tick in which it is true evaluates the weight to 0
\* and passes neither the slack column nor the row of the constraint to the
\* backend; the weight never depends on the monitor state of an earlier tick.
C10_NoOneTickLag ==
    Ticked /\ ctrl.last.first # "none" =>
        \A i \in DOMAIN ctrl.layout.weight_names :
            LET label == ctrl.layout.weight_names[i]
                declared == Constraint_normalized_weight(
                                ctrl.quadratic_weight,
                                ConstraintOfColumn(ctrl.layout.input, label))
            IN label[1] \in {"dc", "err"} =>
                 IF ctrl.last.subs.mon = 0
                 THEN /\ ctrl.last.np_weights[i] = declared
                      /\ \E k \in DOMAIN ctrl.last.qp_b_names :
                            /\ ctrl.last.qp_b_names[k] = label
                            /\ ctrl.last.qp_weights[k] = declared
                      /\ RowOfColumn(label) \in Range(ctrl.last.qp_bA_names)
                 ELSE /\ ctrl.last.np_weights[i] = 0
                      /\ label \notin Range(ctrl.last.qp_b_names)
                      /\ RowOfColumn(label) \notin Range(ctrl.last.qp_bA_names)

\* a tick with the end monitor true, in a controller that has a constraint:
\* its QP was solved without the slack column of the constraint
C10_Witness ==
    /\ Ticked
    /\ ctrl.last.outcome = "command"
    /\ ctrl.last.subs.mon = 1
    /\ ctrl.layout.number_of_constraint_derivative_variables
         + ctrl.layout.number_of_constraint_error_variables > 0
    /\ Len(ctrl.last.qp_b_names) = ctrl.layout.number_of_free_variables_with_horizon

----------------------------------------------------------------------------
(* Registration with the controller: QPController.__init__,                *)
(* add_free_variables, add_constraints, add_velocity_constraints and       *)
(* check_control_horizon.  Names are natural numbers ordered as the        *)
(* strings they stand for.                                                 *)

MaxRegItems == 3        \* free variables and constraints registered in total

RegNames == {1, 2}
RegHorizons == {1, 2}
BatchLengths == 0..2
SupportedQPSolver == {1, 2}     \* the backend enumeration, in its order

\* A control horizon as a caller passes it: None, an int or a float.  The
\* number is kept as twice its value so that k + 0.5 is representable.
NoneHorizon == [kind |-> "None", twice |-> 0]
IntHorizon(k) == [kind |-> "int", twice |-> 2 * k]
HalfHorizon(k) == [kind |-> "float", twice |-> 2 * k + 1]

ControlHorizonInputs(N) ==
    {NoneHorizon} \cup {IntHorizon(k) : k \in {0, 1, N, N + 1}}
                  \cup {HalfHorizon(k) : k \in {0, N}}

RegFreeVariables == [name : RegNames, order : {velocity, acceleration}, haspos : {FALSE}]
RegConstraints(N) == [name : RegNames, control_horizon : ControlHorizonInputs(N)]
RegVelocityConstraints(N) ==
    [name : RegNames, derivative : {velocity}, control_horizon : ControlHorizonInputs(N)]

Batches(items) == UNION {[1..n -> items] : n \in BatchLengths}

\* an optional list argument: None or a list
NoList == [given |-> FALSE, items |-> <<>>]
SomeList(l) == [given |-> TRUE, items |-> l]

\* sorted(l, key=name): stable insertion sort
RECURSIVE SortedByName(_)
SortedByName(l) ==
    IF l = <<>> THEN <<>>
    ELSE LET front == SortedByName(SubSeq(l, 1, Len(l) - 1))
             x == l[Len(l)]
             k == Cardinality({i \in DOMAIN front : front[i].name <= x.name})
         IN SubSeq(front, 1, k) \o <<x>> \o SubSeq(front, k + 1, Len(front))

\* set([x for x in l if l.count(x) > 1]) over the names of one call's list
duplicates(l) ==
    {l[i].name : i \in {i \in DOMAIN l : \E j \in DOMAIN l : j # i /\ l[j].name = l[i].name}}

\* min(c.control_horizon, self.prediction_horizon) in add_constraints:
\* None is not comparable with an int
min_control_horizon(ch, N) ==
    IF ch.kind = "None" THEN [error |-> "TypeError", value |-> ch]
    ELSE IF ch.twice <= 2 * N THEN [error |-> "none", value |-> ch]
    ELSE [error |-> "none", value |-> IntHorizon(N)]

\* QPController.check_control_horizon, without the bound from above
check_control_horizon_NoClamp(ch, N) ==
    IF ch.kind = "None"
    THEN [error |-> "none", value |-> IntHorizon(N), warned |-> FALSE]
    ELSE IF ch.twice <= 0 \/ ch.kind # "int"
    THEN [error |-> "ValueError", value |-> ch, warned |-> FALSE]
    ELSE [error |-> "none", value |-> ch, warned |-> FALSE]

\* QPController.check_control_horizon
check_control_horizon(ch, N) ==
    IF ch.kind = "None"
    THEN [error |-> "none", value |-> IntHorizon(N), warned |-> FALSE]
    ELSE IF ch.twice <= 0 \/ ch.kind # "int"
    THEN [error |-> "ValueError", value |-> ch, warned |-> FALSE]
    ELSE IF ch.twice > 2 * N
    THEN [error |-> "none", value |-> IntHorizon(N), warned |-> TRUE]
    ELSE [error |-> "none", value |-> ch, warned |-> FALSE]

\* the loop body of add_constraints for one constraint
constraint_horizon(ch, N) ==
    LET clamped == min_control_horizon(ch, N)
    IN IF clamped.error # "none"
       THEN [error |-> clamped.error, value |-> ch, warned |-> FALSE]
       ELSE check_control_horizon(clamped.value, N)

\* for c in list: <body>, where out[i] is what the body gives for the i-th
\* constraint, [error, value, warned]: the loop stops at the first
\* constraint that raises, the ones before it keep their new control horizon
HorizonLoop(l, out) ==
    LET failing == {i \in DOMAIN l : out[i].error # "none"}
        stop == IF failing = {} THEN Len(l) + 1
                ELSE CHOOSE i \in failing : \A j \in failing : i <= j
    IN [error |-> IF failing = {} THEN "none" ELSE out[stop].error,
        list |-> [i \in DOMAIN l |->
                     IF i < stop THEN [l[i] EXCEPT !.control_horizon = out[i].value]
                     ELSE l[i]],
        warned |-> \E i \in DOMAIN l : i < stop /\ out[i].warned]

\* the controller object before __init__ has registered anything
NewController(N) ==
    [status |-> "controller", prediction_horizon |-> N,
     free_variables |-> <<>>, constraints |-> <<>>, velocity_constraints |-> <<>>,
     order |-> 0, qp_solver |-> 0, raised |-> "none", warned |-> FALSE]

Returned(r) == [r EXCEPT !.raised = "none", !.warned = FALSE]

\* QPController.add_free_variables
add_free_variables(r, free_variables) ==
    IF Len(free_variables) = 0
    THEN [r EXCEPT !.raised = "QPSolverException", !.warned = FALSE]
    ELSE LET all == r.free_variables \o SortedByName(free_variables)
             registered == [r EXCEPT !.free_variables = all,
                                     !.order = Min(r.prediction_horizon + 1,
                                                   MaxOf({all[i].order : i \in DOMAIN all})),
                                     !.warned = FALSE]
         IN IF duplicates(free_variables) # {}
            THEN [registered EXCEPT !.raised = "AssertionError"]
            ELSE [registered EXCEPT !.raised = "none"]

\* QPController.add_constraints
add_constraints(r, constraints) ==
    LET all == r.constraints \o SortedByName(constraints)
        loop == HorizonLoop(all, [i \in DOMAIN all |->
                                    constraint_horizon(all[i].control_horizon,
                                                       r.prediction_horizon)])
    IN IF duplicates(constraints) # {}
       THEN [r EXCEPT !.constraints = all, !.raised = "AssertionError", !.warned = FALSE]
       ELSE [r EXCEPT !.constraints = loop.list, !.raised = loop.error,
                      !.warned = loop.warned]

\* QPController.add_velocity_constraints
add_velocity_constraints(r, constraints) ==
    LET all == r.velocity_constraints \o SortedByName(constraints)
        loop == HorizonLoop(all, [i \in DOMAIN all |->
                                    check_control_horizon(all[i].control_horizon,
                                                          r.prediction_horizon)])
    IN IF duplicates(constraints) # {}
       THEN [r EXCEPT !.velocity_constraints = all, !.raised = "AssertionError",
                      !.warned = FALSE]
       ELSE [r EXCEPT !.velocity_constraints = loop.list, !.raised = loop.error,
                      !.warned = loop.warned]

\* the backend selection of QPController.__init__: the class found, or the
\* exception raised (solver_id 0 stands for None)
select_qp_solver(solver_id, available_solvers) ==
    IF solver_id # 0
    THEN IF solver_id \in available_solvers
         THEN [error |-> "none", solver |-> solver_id]
         ELSE [error |-> "KeyError", solver |-> 0]
    ELSE IF available_solvers \cap SupportedQPSolver # {}
         THEN [error |-> "none",
               solver |-> CHOOSE s \in available_solvers \cap SupportedQPSolver :
                             \A u \in available_solvers \cap SupportedQPSolver : s <= u]
         ELSE [error |-> "QPSolverException", solver |-> 0]

\* an exception inside __init__: no controller object comes into being
NoController(e) == [status |-> "none", raised |-> e]

\* QPController.__init__
QPController_init(N, solver_id, available_solvers, free_variables, constraints, velocity_constraints) ==
    LET r0 == NewController(N)
        r1 == IF free_variables.given
              THEN add_free_variables(r0, free_variables.items) ELSE r0
        r2 == IF constraints.given THEN add_constraints(r1, constraints.items) ELSE r1
        r3 == IF velocity_constraints.given
              THEN add_velocity_constraints(r2, velocity_constraints.items) ELSE r2
        chosen == select_qp_solver(solver_id, available_solvers)
    IN IF r1.raised # "none" THEN NoController(r1.raised)
       ELSE IF r2.raised # "none" THEN NoController(r2.raised)
       ELSE IF r3.raised # "none" THEN NoController(r3.raised)
       ELSE IF chosen.error # "none" THEN NoController(chosen.error)
       ELSE IF r3.order = 0 THEN NoController("AttributeError")
       ELSE [r3 EXCEPT !.qp_solver = chosen.solver,
                       !.warned = r2.warned \/ r3.warned]

----------------------------------------------------------------------------
(* Compiling a registered controller *)

\* the value of a registered control horizon (an int within 1..N)
HorizonValue(ch) == ch.twice \div 2

\* The dictionaries the block classes build are keyed by name and sorted by
\* key: what H, B and BA see of the registered lists is their content in
\* name order.
RegisteredBuild(r) ==
    [free_variables |-> SortedByName(r.free_variables),
     constraints |->
         [i \in DOMAIN r.constraints |->
             [name |-> SortedByName(r.constraints)[i].name,
              control_horizon |->
                  HorizonValue(SortedByName(r.constraints)[i].control_horizon)]],
     derivative_constraints |->
         [i \in DOMAIN r.velocity_constraints |->
             [name |-> SortedByName(r.velocity_constraints)[i].name,
              derivative |-> SortedByName(r.velocity_constraints)[i].derivative,
              control_horizon |->
                  HorizonValue(SortedByName(r.velocity_constraints)[i].control_horizon)]],
     prediction_horizon |-> r.prediction_horizon]

\* A.construct_A(), one derivative block: the block has a row per horizon
\* step and expression, the expressions in name order
\* (get_derivative_constraint_expressions); the rows deleted are those at
\* index i + t * len for the i-th constraint of the registered list when
\* t + 1 > control_horizon.  The result names, for every row that is left,
\* the step and the constraint whose expression the row holds.
construct_A_derivative_rows(r, d) ==
    LET list == SelectSeq(r.velocity_constraints, LAMBDA c : c.derivative = d)
        expressions == SortedByName(list)
        n == Len(list)
        N == r.prediction_horizon
        rows == [k \in 1..(n * N) |->
                    <<(k - 1) \div n, expressions[((k - 1) % n) + 1].name>>]
        rows_to_delete ==
            {k \in 1..(n * N) :
                ((k - 1) \div n) + 1
                    > HorizonValue(list[((k - 1) % n) + 1].control_horizon)}
        kept == (1..(n * N)) \ rows_to_delete
    IN [m \in 1..Cardinality(kept) |->
           rows[CHOOSE k \in kept : Cardinality({j \in kept : j <= k}) = m]]

\* the names of the registered items of each kind are pairwise distinct
DistinctNames(l) == \A i, j \in DOMAIN l : l[i].name = l[j].name => i = j

----------------------------------------------------------------------------
(* Specification of registration: a controller is constructed, further     *)
(* items are registered, and the controller is compiled.                   *)

RegisteredItems(r) ==
    Len(r.free_variables) + Len(r.constraints) + Len(r.velocity_constraints)

InitReg ==
    /\ build = [input |-> [status |-> "none", raised |-> "none"], result |-> NotBuilt]
    /\ solver = NoSolver
    /\ ctrl = NoCtrl
    /\ task = NoTask
    /\ filt = NoFilt

Registering ==
    /\ build.input.status = "controller"
    /\ build.input.raised = "none"
    /\ build.result.status = "none"

\* the outcome of a constructor call: the controller, or the exception
\* together with what the caller asked for
Constructed(c, solver_id, available_solvers, free_variables) ==
    IF c.status = "controller" THEN c
    ELSE [status |-> "none", raised |-> c.raised,
          call |-> [solver_id |-> solver_id, available_solvers |-> available_solvers,
                    free_variables_given |-> free_variables.given,
                    free_variables_empty |-> free_variables.given
                                              /\ free_variables.items = <<>>]]

Construct ==
    /\ build.input.status = "none"
    /\ build.input.raised = "none"
    /\ \E N \in RegHorizons, solver_id \in {0} \cup SupportedQPSolver,
          available_solvers \in SUBSET SupportedQPSolver,
          free_variables \in {NoList} \cup {SomeList(l) : l \in Batches(RegFreeVariables)} :
         \E constraints \in {NoList} \cup {SomeList(l) : l \in Batches(RegConstraints(N))},
            velocity_constraints \in
                {NoList} \cup {SomeList(l) : l \in Batches(RegVelocityConstraints(N))} :
            /\ Len(free_variables.items) + Len(constraints.items)
                 + Len(velocity_constraints.items) <= MaxRegItems
            /\ build' = [build EXCEPT !.input =
                            Constructed(QPController_init(N, solver_id, available_solvers,
                                                          free_variables, constraints,
                                                          velocity_constraints),
                                        solver_id, available_solvers, free_variables)]
    /\ UNCHANGED <<solver, ctrl, task, filt>>

AddFreeVariables ==
    /\ Registering
    /\ \E l \in Batches(RegFreeVariables) :
         /\ RegisteredItems(build.input) + Len(l) <= MaxRegItems
         /\ build' = [build EXCEPT !.input = add_free_variables(Returned(build.input), l)]
    /\ UNCHANGED <<solver, ctrl, task, filt>>

AddConstraints ==
    /\ Registering
    /\ \E l \in Batches(RegConstraints(build.input.prediction_horizon)) :
         /\ RegisteredItems(build.input) + Len(l) <= MaxRegItems
         /\ build' = [build EXCEPT !.input = add_constraints(Returned(build.input), l)]
    /\ UNCHANGED <<solver, ctrl, task, filt>>

AddVelocityConstraints ==
    /\ Registering
    /\ \E l \in Batches(RegVelocityConstraints(build.input.prediction_horizon)) :
         /\ RegisteredItems(build.input) + Len(l) <= MaxRegItems
         /\ build' = [build EXCEPT !.input =
                         add_velocity_constraints(Returned(build.input), l)]
    /\ UNCHANGED <<solver, ctrl, task, filt>>

\* QPController.compile() of a controller whose names are pairwise distinct
\* within each kind
CompileRegistered ==
    /\ Registering
    /\ DistinctNames(build.input.free_variables)
    /\ DistinctNames(build.input.constraints)
    /\ DistinctNames(build.input.velocity_constraints)
    /\ build' = [build EXCEPT !.result =
                    ("A_rows" :> construct_A_derivative_rows(build.input, velocity))
                    @@ _construct_big_ass_M(RegisteredBuild(build.input))]
    /\ UNCHANGED <<solver, ctrl, task, filt>>

NextReg ==
    \/ Construct
    \/ AddFreeVariables
    \/ AddConstraints
    \/ AddVelocityConstraints
    \/ CompileRegistered

SpecReg == InitReg /\ [][NextReg]_vars

----------------------------------------------------------------------------
(* Claims about registration and the compiled layout *)

\* the horizon steps, in order, of the labels of the derivative constraint
\* with index j among the labels of one block
StepsOfConstraint(labels, j) ==
    LET own == SelectSeq(labels, LAMBDA k : k[1] = "dc" /\ k[4] = j)
    IN [m \in DOMAIN own |-> own[m][3]]

\* the horizon steps, in order, of the rows of A that hold the expression of
\* the derivative constraint of the given name
StepsOfRows(rows, name) ==
    LET own == SelectSeq(rows, LAMBDA row : row[2] = name)
    IN [m \in DOMAIN own |-> own[m][1]]

TruncatedTo(b, j, rows) ==
    LET c == b.derivative_constraints[j]
        expected == [t \in 1..c.control_horizon |-> t - 1]
    IN /\ StepsOfRows(rows, c.name) = expected
       /\ StepsOfConstraint(build.result.bA_names, j) = expected
       /\ StepsOfConstraint(build.result.weights, j) = expected
       /\ StepsOfConstraint(build.result.b_names, j) = expected

\* C11: a derivative constraint with control horizon c < N contributes
\* exactly c rows to A, c entries to BA and c slack columns (c entries in H
\* and in B), namely those of the horizon steps 0..c-1.
C11_ControlHorizonTruncation ==
    build.result.status = "built" =>
        \A j \in DOMAIN build.input.velocity_constraints :
            RegisteredBuild(build.input).derivative_constraints[j].control_horizon
                < build.input.prediction_horizon
            => TruncatedTo(RegisteredBuild(build.input), j, build.result.A_rows)

\* C11 holds of the controllers whose derivative constraints were registered
\* in name order (as a single registration call leaves them)
C11_TruncationInNameOrder ==
    /\ build.result.status = "built"
    /\ SortedByName(build.input.velocity_constraints) = build.input.velocity_constraints
    => C11_ControlHorizonTruncation

\* a registered control horizon is an int within 1..N
ValidHorizon(ch, N) == ch.kind = "int" /\ 2 <= ch.twice /\ ch.twice <= 2 * N

\* what the registration of one control horizon is specified to do
Acceptable(ch) == ch.kind = "None" \/ (ch.kind = "int" /\ ch.twice >= 2)
SpecifiedHorizon(ch, N) ==
    IF ch.kind = "None" \/ ch.twice > 2 * N THEN IntHorizon(N) ELSE ch
SpecifiedWarning(ch, N) == ch.kind # "None" /\ ch.twice > 2 * N

RegisteredAsSpecified(before, after, raised, warned, l, N) ==
    IF \A i \in DOMAIN l : Acceptable(l[i].control_horizon)
    THEN /\ raised = "none"
         /\ after = before \o [i \in DOMAIN l |->
                [SortedByName(l)[i] EXCEPT !.control_horizon =
                    SpecifiedHorizon(SortedByName(l)[i].control_horizon, N)]]
         /\ warned = (\E i \in DOMAIN l : SpecifiedWarning(l[i].control_horizon, N))
    ELSE raised \notin {"none", "AssertionError"}

\* C12: after registration every registered constraint has an integer
\* control horizon within 1..prediction_horizon; an unset control horizon
\* becomes the prediction horizon, a value above it is clamped to it with a
\* warning, a non-positive or non-integer value is rejected with an error.
\* Stated of every registration call a controller can receive next.
C12_ControlHorizonRegistration ==
    Registering =>
        LET r == build.input
            N == r.prediction_horizon
        IN /\ \A i \in DOMAIN r.constraints : ValidHorizon(r.constraints[i].control_horizon, N)
           /\ \A i \in DOMAIN r.velocity_constraints :
                  ValidHorizon(r.velocity_constraints[i].control_horizon, N)
           /\ \A l \in Batches(RegConstraints(N)) :
                  duplicates(l) = {} =>
                      RegisteredAsSpecified(r.constraints,
                                            add_constraints(r, l).constraints,
                                            add_constraints(r, l).raised,
                                            add_constraints(r, l).warned, l, N)
           /\ \A l \in Batches(RegVelocityConstraints(N)) :
                  duplicates(l) = {} =>
                      RegisteredAsSpecified(r.velocity_constraints,
                                            add_velocity_constraints(r, l).velocity_constraints,
                                            add_velocity_constraints(r, l).raised,
                                            add_velocity_constraints(r, l).warned, l, N)

\* the part of C12 the code keeps: after a registration call that returned,
\* every registered constraint has an integer control horizon within 1..N,
\* and add_velocity_constraints treats every control horizon as specified
C12_RegisteredHorizonsValid ==
    Registering =>
        LET r == build.input
            N == r.prediction_horizon
        IN /\ \A i \in DOMAIN r.constraints : ValidHorizon(r.constraints[i].control_horizon, N)
           /\ \A i \in DOMAIN r.velocity_constraints :
                  ValidHorizon(r.velocity_constraints[i].control_horizon, N)
           /\ \A l \in Batches(RegVelocityConstraints(N)) :
                  duplicates(l) = {} =>
                      RegisteredAsSpecified(r.velocity_constraints,
                                            add_velocity_constraints(r, l).velocity_constraints,
                                            add_velocity_constraints(r, l).raised,
                                            add_velocity_constraints(r, l).warned, l, N)

----------------------------------------------------------------------------
(* Claims about adding constraints to a task *)

ConstraintMaps(t) == <<t.eq_constraints, t.neq_constraints, t.derivative_constraints>>

MapOf(t, op) ==
    IF op = "eq" THEN t.eq_constraints
    ELSE IF op = "neq" THEN t.neq_constraints
    ELSE t.derivative_constraints

\* C13: adding a constraint to a task (equality, inequality or derivative)
\* fails with the goal-initialization error when the expression is not
\* scalar and when a constraint of the same kind with the same name is
\* already registered; in both cases the constraint maps are left unchanged.
C13_AddConstraintRejects ==
    [][("op" \in DOMAIN task'.last
        /\ (~task'.last.scalar \/ task'.last.name \in DOMAIN MapOf(task, task'.last.op)))
       => /\ task'.last.kind = "GoalInitalizationException"
          /\ ConstraintMaps(task') = ConstraintMaps(task)]_vars

\* the part of C13 the code keeps: a non-scalar expression given to
\* add_equality_constraint or add_inequality_constraint is rejected with
\* GoalInitalizationException, a duplicate name given to
\* add_inequality_constraint or add_velocity_constraint is rejected (with
\* KeyError), and a rejected call leaves the maps unchanged
C13_RejectedLeavesMaps ==
    [][("op" \in DOMAIN task'.last)
       => /\ (~task'.last.scalar /\ task'.last.op # "derivative")
               => task'.last.kind = "GoalInitalizationException"
          /\ (task'.last.scalar /\ task'.last.op # "eq"
                /\ task'.last.name \in DOMAIN MapOf(task, task'.last.op))
               => task'.last.kind = "KeyError"
          /\ task'.last.kind # "add_constraint"
               => ConstraintMaps(task') = ConstraintMaps(task)]_vars

\* C14: after any sequence of successful add_free_variables, add_constraints
\* and add_velocity_constraints calls on one controller the registered free
\* variables have pairwise distinct names and so have the registered
\* constraints of each kind, also when the items arrived in different calls.
C14_RegisteredNamesDistinct ==
    (build.input.status = "controller" /\ build.input.raised = "none") =>
        /\ DistinctNames(build.input.free_variables)
        /\ DistinctNames(build.input.constraints)
        /\ DistinctNames(build.input.velocity_constraints)

\* the part of C14 the code keeps: the items one call registers have
\* pairwise distinct names (the items are appended to the registered list)
C14_NamesDistinctWithinCall ==
    [][(build.input.status = "controller" /\ build'.input.status = "controller"
        /\ build'.input.raised = "none")
       => /\ DistinctNames(SubSeq(build'.input.free_variables,
                                  Len(build.input.free_variables) + 1,
                                  Len(build'.input.free_variables)))
          /\ DistinctNames(SubSeq(build'.input.constraints,
                                  Len(build.input.constraints) + 1,
                                  Len(build'.input.constraints)))
          /\ DistinctNames(SubSeq(build'.input.velocity_constraints,
                                  Len(build.input.velocity_constraints) + 1,
                                  Len(build'.input.velocity_constraints)))]_vars

----------------------------------------------------------------------------
(* Specification of the assembler on builds with at most one constraint *)

InitSingle ==
    /\ build \in [input : {b \in BuildInputs :
                              Len(b.constraints) + Len(b.derivative_constraints) <= 1},
                   result : {NotBuilt}]
    /\ solver = NoSolver
    /\ ctrl = NoCtrl
    /\ task = NoTask
    /\ filt = NoFilt

SpecSingle == InitSingle /\ [][NextBuild]_vars

----------------------------------------------------------------------------
(* Claims about the weights of the free variables *)

\* the derivatives, in order of appearance, of the weight entries of free
\* variable i at horizon step t
WeightDerivatives(weights, t, i) ==
    LET own == SelectSeq(weights, LAMBDA k : k[1] = "fv" /\ k[2] = t /\ k[3] = i)
    IN [m \in DOMAIN own |-> own[m][4]]

\* C15: for each free variable v, H contains exactly
\* min(v.order, controller.order) weight entries per horizon step, one for
\* each derivative from velocity up to min(v.order, controller.order); a
\* variable with limits only for position and velocity contributes no
\* acceleration or jerk weight entry.
C15_WeightEntriesPerVariable ==
    build.result.status = "built" =>
        \A i \in DOMAIN build.input.free_variables :
            \A t \in 0..(build.input.prediction_horizon - 1) :
                LET v == build.input.free_variables[i]
                    own == WeightDerivatives(build.result.weights, t, i)
                IN /\ Len(own) = Min(v.order, build.result.order)
                   /\ Range(own) = velocity..Min(v.order, build.result.order)
                   /\ v.order = velocity =>
                          Range(own) \cap {acceleration, jerk} = {}

\* a build of a controller of order acceleration or higher in which one
\* variable has velocity as its highest derivative
C15_Witness ==
    /\ build.result.status = "built"
    /\ build.result.order >= acceleration
    /\ \E i \in DOMAIN build.input.free_variables :
           /\ build.input.free_variables[i].order = velocity
           /\ WeightDerivatives(build.result.weights, 0, i) = <<velocity>>

----------------------------------------------------------------------------
(* FreeVariable: default limits, override limits and the memoized getters *)

MaxLimitCalls == 3      \* calls on one free variable

LimitDerivatives == {position, velocity}
DefaultLowerLimit == 0 - 2
DefaultUpperLimit == 2
LowerOverrides == {0 - 3, 0 - 1}
UpperOverrides == {1, 3}

\* a dictionary as a function; key in dict, dict[key] = value
DictSet(dict, key, value) ==
    [k \in DOMAIN dict \cup {key} |-> IF k = key THEN value ELSE dict[k]]

\* FreeVariable.__init__: the given limits are the default limits, there is
\* no override and nothing has been memoized
NewFreeVariable(lower_limits, upper_limits) ==
    [status |-> "free_variable",
     default_lower_limits |-> lower_limits, default_upper_limits |-> upper_limits,
     lower_limits |-> <<>>, upper_limits |-> <<>>,
     memo_lower |-> <<>>, memo_upper |-> <<>>,
     calls |-> 0, last |-> [op |-> "none"]]

\* the body of get_lower_limit
lower_limit_body(v, derivative, default) ==
    IF ~default /\ derivative \in DOMAIN v.default_lower_limits
                /\ derivative \in DOMAIN v.lower_limits
    THEN [raised |-> "none",
          value |-> Max(v.default_lower_limits[derivative], v.lower_limits[derivative])]
    ELSE IF derivative \in DOMAIN v.default_lower_limits
    THEN [raised |-> "none", value |-> v.default_lower_limits[derivative]]
    ELSE IF derivative \in DOMAIN v.lower_limits
    THEN [raised |-> "none", value |-> v.lower_limits[derivative]]
    ELSE [raised |-> "KeyError", value |-> 0]

\* the body of get_upper_limit
upper_limit_body(v, derivative, default) ==
    IF ~default /\ derivative \in DOMAIN v.default_upper_limits
                /\ derivative \in DOMAIN v.upper_limits
    THEN [raised |-> "none",
          value |-> Min(v.default_upper_limits[derivative], v.upper_limits[derivative])]
    ELSE IF derivative \in DOMAIN v.default_upper_limits
    THEN [raised |-> "none", value |-> v.default_upper_limits[derivative]]
    ELSE IF derivative \in DOMAIN v.upper_limits
    THEN [raised |-> "none", value |-> v.upper_limits[derivative]]
    ELSE [raised |-> "KeyError", value |-> 0]

\* @memoize: the result of the first call with given arguments is kept and
\* returned by every later call with these arguments; a call that raises
\* keeps nothing
memoize(memo, key, computed) ==
    IF key \in DOMAIN memo THEN [memo |-> memo, out |-> memo[key]]
    ELSE IF computed.raised # "none" THEN [memo |-> memo, out |-> computed]
    ELSE [memo |-> DictSet(memo, key, computed), out |-> computed]

LimitCall(op, derivative, default, out) ==
    [op |-> op, derivative |-> derivative, default |-> default,
     raised |-> out.raised, value |-> out.value]

get_lower_limit_of(v, derivative, default) ==
    LET m == memoize(v.memo_lower, <<derivative, default>>,
                     lower_limit_body(v, derivative, default))
    IN [v EXCEPT !.memo_lower = m.memo, !.calls = @ + 1,
                 !.last = LimitCall("get_lower_limit", derivative, default, m.out)]

get_upper_limit_of(v, derivative, default) ==
    LET m == memoize(v.memo_upper, <<derivative, default>>,
                     upper_limit_body(v, derivative, default))
    IN [v EXCEPT !.memo_upper = m.memo, !.calls = @ + 1,
                 !.last = LimitCall("get_upper_limit", derivative, default, m.out)]

set_lower_limit(v, derivative, limit) ==
    [v EXCEPT !.lower_limits = DictSet(@, derivative, limit), !.calls = @ + 1,
              !.last = LimitCall("set_lower_limit", derivative, FALSE,
                                 [raised |-> "none", value |-> limit])]

set_upper_limit(v, derivative, limit) ==
    [v EXCEPT !.upper_limits = DictSet(@, derivative, limit), !.calls = @ + 1,
              !.last = LimitCall("set_upper_limit", derivative, FALSE,
                                 [raised |-> "none", value |-> limit])]

----------------------------------------------------------------------------
(* Specification of one free variable's limits *)

InitLimits ==
    /\ \E has_lower, has_upper \in SUBSET LimitDerivatives :
           filt = NewFreeVariable([d \in has_lower |-> DefaultLowerLimit],
                                  [d \in has_upper |-> DefaultUpperLimit])
    /\ build = [input |-> <<>>, result |-> NotBuilt]
    /\ solver = NoSolver
    /\ ctrl = NoCtrl
    /\ task = NoTask

GetLowerLimit ==
    /\ filt.calls < MaxLimitCalls
    /\ \E d \in LimitDerivatives, default \in BOOLEAN :
           filt' = get_lower_limit_of(filt, d, default)
    /\ UNCHANGED <<build, solver, ctrl, task>>

GetUpperLimit ==
    /\ filt.calls < MaxLimitCalls
    /\ \E d \in LimitDerivatives, default \in BOOLEAN :
           filt' = get_upper_limit_of(filt, d, default)
    /\ UNCHANGED <<build, solver, ctrl, task>>

SetLowerLimit ==
    /\ filt.calls < MaxLimitCalls
    /\ \E d \in LimitDerivatives, limit \in LowerOverrides :
           filt' = set_lower_limit(filt, d, limit)
    /\ UNCHANGED <<build, solver, ctrl, task>>

SetUpperLimit ==
    /\ filt.calls < MaxLimitCalls
    /\ \E d \in LimitDerivatives, limit \in UpperOverrides :
           filt' = set_upper_limit(filt, d, limit)
    /\ UNCHANGED <<build, solver, ctrl, task>>

NextLimits ==
    \/ GetLowerLimit
    \/ GetUpperLimit
    \/ SetLowerLimit
    \/ SetUpperLimit

SpecLimits == InitLimits /\ [][NextLimits]_vars

\* what a getter is specified to return, given the default limits, the
\* override limits and the way the two are combined
LimitAsSpecified(call, defaults, overrides, Combine(_, _)) ==
    LET d == call.derivative
    IN IF d \in DOMAIN defaults /\ d \in DOMAIN overrides
       THEN /\ call.raised = "none"
            /\ ~call.default => call.value = Combine(defaults[d], overrides[d])
       ELSE IF d \in DOMAIN defaults
       THEN call.raised = "none" /\ call.value = defaults[d]
       ELSE IF d \in DOMAIN overrides
       THEN call.raised = "none" /\ call.value = overrides[d]
       ELSE call.raised = "LimitNotDefinedError"

\* C16: get_lower_limit(d) returns max(default, override) and
\* get_upper_limit(d) returns min(default, override) when both limits exist
\* for d (and default-only was not requested), the single existing one when
\* only one exists, and fails with LimitNotDefinedError when neither exists.
C16_LimitsCombined ==
    /\ filt.last.op = "get_lower_limit" =>
           LimitAsSpecified(filt.last, filt.default_lower_limits, filt.lower_limits, Max)
    /\ filt.last.op = "get_upper_limit" =>
           LimitAsSpecified(filt.last, filt.default_upper_limits, filt.upper_limits, Min)

\* the part of C16 the code keeps: every limit a getter returns is at least
\* as tight as the default limit of that derivative
C16_OverrideOnlyTightens ==
    /\ (filt.last.op = "get_lower_limit" /\ filt.last.raised = "none"
          /\ filt.last.derivative \in DOMAIN filt.default_lower_limits)
       => filt.last.value >= filt.default_lower_limits[filt.last.derivative]
    /\ (filt.last.op = "get_upper_limit" /\ filt.last.raised = "none"
          /\ filt.last.derivative \in DOMAIN filt.default_upper_limits)
       => filt.last.value <= filt.default_upper_limits[filt.last.derivative]

\* the constructor call found no compatible backend
NoBackendFound(call) ==
    IF call.solver_id # 0 THEN call.solver_id \notin call.available_solvers
    ELSE call.available_solvers \cap SupportedQPSolver = {}

\* the errors of the registration calls the constructor makes before it
\* selects the backend
RegistrationErrors == {"AssertionError", "TypeError", "ValueError"}

\* C17: building a controller fails with QPSolverException when the supplied
\* free-variable list is empty and when no compatible backend is found,
\* whether a backend was requested or is auto-selected; no controller
\* without free variables or without backend is produced.
C17_ConstructionFails ==
    /\ build.input.status = "controller" =>
           /\ Len(build.input.free_variables) > 0
           /\ build.input.qp_solver \in SupportedQPSolver
    /\ (build.input.status = "none" /\ build.input.raised # "none") =>
           /\ build.input.call.free_variables_empty =>
                  build.input.raised = "QPSolverException"
           /\ (NoBackendFound(build.input.call)
                 /\ build.input.raised \notin RegistrationErrors)
              => build.input.raised = "QPSolverException"

\* the part of C17 the code keeps: no controller without free variables or
\* without backend is produced, an empty free-variable list fails with
\* QPSolverException and so does the auto-selection that finds no backend
C17_NoControllerWithoutBackend ==
    /\ build.input.status = "controller" =>
           /\ Len(build.input.free_variables) > 0
           /\ build.input.qp_solver \in SupportedQPSolver
    /\ (build.input.status = "none" /\ build.input.raised # "none") =>
           /\ build.input.call.free_variables_empty =>
                  build.input.raised = "QPSolverException"
           /\ (NoBackendFound(build.input.call) /\ build.input.call.solver_id = 0
                 /\ build.input.raised \notin RegistrationErrors)
              => build.input.raised = "QPSolverException"
           /\ NoBackendFound(build.input.call) => build.input.raised # "AttributeError"

\* the orders in which the items of a list can be registered
Reorderings(l) == {[i \in DOMAIN l |-> l[p[i]]] : p \in Permutations(DOMAIN l)}

\* the controllers that hold the same free variables and constraints as r,
\* registered in another order
SameSets(r) ==
    {[r EXCEPT !.free_variables = fv, !.constraints = c, !.velocity_constraints = vc] :
        fv \in Reorderings(r.free_variables),
        c \in Reorderings(r.constraints),
        vc \in Reorderings(r.velocity_constraints)}

LabelsDeterministic ==
    \A other \in SameSets(build.input) :
        /\ _construct_big_ass_M(RegisteredBuild(other)).b_names = build.result.b_names
        /\ _construct_big_ass_M(RegisteredBuild(other)).bA_names = build.result.bA_names

\* C18: two controllers built from the same set of free variables and
\* constraints have identical column labels (b_names) and identical row
\* labels (bA_names) in identical order; the number of column labels is the
\* height of H and the number of row labels is the height of A.
C18_LayoutDeterministic ==
    build.result.status = "built" =>
        /\ LabelsDeterministic
        /\ Len(build.result.b_names) = build.result.H_height
        /\ Len(build.result.bA_names) = build.result.A_height

\* the part of C18 the code keeps: the labels do not depend on the order of
\* registration and there are as many column labels as H is high
C18_LabelsDeterministic ==
    build.result.status = "built" =>
        /\ LabelsDeterministic
        /\ Len(build.result.b_names) = build.result.H_height

----------------------------------------------------------------------------
(* Claims about the hard-limit diagnosis *)

\* the declared bounds of the columns the solver sees, with the bound of
\* every slack column replaced by the widened one
WidenedBounds(names, bounds, widened) ==
    [i \in DOMAIN bounds |-> IF names[i][1] = "fv" THEN bounds[i] ELSE widened]

DiagnosisOutcomeAsSpecified ==
    ctrl.last.outcome = IF ctrl.last.second = "ok" /\ ctrl.last.violation
                        THEN "HardConstraintsViolatedException"
                        ELSE ctrl.last.first

\* C19: in the hard-limit diagnosis after a failed tick the controller
\* re-solves the problem with the slack bounds widened; if a solution is
\* obtained in which some value lies outside its declared bound,
\* HardConstraintsViolatedException is raised, otherwise the original
\* exception is re-raised.
C19_DiagnosisWithWidenedSlack ==
    (Ticked /\ ctrl.last.diagnosed) =>
        /\ ctrl.last.diagnosis.ran
        /\ ctrl.last.diagnosis.solve_lb =
               WidenedBounds(ctrl.last.qp_b_names, ctrl.last.diagnosis.solve_lb,
                             0 - WidenedSlackLimit)
        /\ ctrl.last.diagnosis.solve_ub =
               WidenedBounds(ctrl.last.qp_b_names, ctrl.last.diagnosis.solve_ub,
                             WidenedSlackLimit)
        /\ DiagnosisOutcomeAsSpecified

\* the part of C19 the code keeps: the diagnosis raises
\* HardConstraintsViolatedException when the re-solve returns a solution with
\* a value outside its declared bound and re-raises the original exception
\* otherwise; the widened bounds are computed but the re-solve is given the
\* declared ones
C19_DiagnosisOutcome ==
    (Ticked /\ ctrl.last.diagnosed) =>
        /\ ctrl.last.diagnosis.lb =
               WidenedBounds(ctrl.last.qp_b_names, ctrl.last.diagnosis.lb,
                             0 - WidenedSlackLimit)
        /\ DiagnosisOutcomeAsSpecified

----------------------------------------------------------------------------
(* Payload monitors: the state field of a PayloadMonitor and the __call__  *)
(* of each of its subclasses.  The executor calls a monitor inline or on a *)
(* worker thread; a call on a worker thread is a sequence of steps that    *)
(* interleave with the steps of the other monitors.                        *)

MaxPayloads == 2        \* payload monitors of one motion
MaxTime == 2            \* god_map.time runs from 0 to MaxTime
PayloadNewLength == 1   \* new_length of SetMaxTrajectoryLength
PayloadMod == 2         \* mod of PayloadAlternator

WorldUpdateKinds == {"UpdateParentLinkOfGroup"}
ThreadKinds == WorldUpdateKinds \cup {"Sleep"}
InlineKinds == {"EndMotion", "CancelMotion", "SetMaxTrajectoryLength", "Print",
                "CollisionMatrixUpdater", "PayloadAlternator"}
PayloadKinds == ThreadKinds \cup InlineKinds

\* PayloadMonitor.__init__ as the subclasses call it
NewPayloadMonitor(kind) ==
    [kind |-> kind,
     stay_true |-> kind # "PayloadAlternator",
     run_call_in_thread |-> kind \in ThreadKinds,
     state |-> FALSE,
     pc |-> "idle",             \* where the monitor's current call stands
     returned |-> FALSE,        \* a call of the monitor has returned normally
     raised |-> FALSE]          \* a call of the monitor has raised

\* return at the end of __call__
CallReturned(m) == [m EXCEPT !.returned = TRUE, !.pc = "idle"]

\* an exception leaves __call__
CallRaised(m) == [m EXCEPT !.raised = TRUE, !.pc = "idle"]

\* EndMotion.__call__
EndMotion_call(m) == CallReturned([m EXCEPT !.state = TRUE])

\* CancelMotion.__call__
CancelMotion_call(m) == CallRaised([m EXCEPT !.state = TRUE])

\* SetMaxTrajectoryLength.__call__
SetMaxTrajectoryLength_call(m, time) ==
    IF time > PayloadNewLength THEN CancelMotion_call(m) ELSE CallReturned(m)

\* Print.__call__
Print_call(m) == CallReturned([m EXCEPT !.state = TRUE])

\* CollisionMatrixUpdater.__call__; ok: the collision scene raises nothing
CollisionMatrixUpdater_call(m, ok) ==
    IF ok THEN CallReturned([m EXCEPT !.state = TRUE]) ELSE CallRaised(m)

\* PayloadAlternator.__call__
PayloadAlternator_call(m, time) ==
    CallReturned([m EXCEPT !.state = (time % PayloadMod = 0)])

\* __call__ of a monitor that is not run in a thread
InlineCall(m, time, ok) ==
    CASE m.kind = "EndMotion" -> EndMotion_call(m)
      [] m.kind = "CancelMotion" -> CancelMotion_call(m)
      [] m.kind = "SetMaxTrajectoryLength" -> SetMaxTrajectoryLength_call(m, time)
      [] m.kind = "Print" -> Print_call(m)
      [] m.kind = "CollisionMatrixUpdater" -> CollisionMatrixUpdater_call(m, ok)
      [] m.kind = "PayloadAlternator" -> PayloadAlternator_call(m, time)

\* faulty variant: the state is set whether or not apply_world_update raised
WorldUpdatePayloadMonitor_exit_Always(m, ok) ==
    IF ok THEN [m EXCEPT !.pc = "set"]
    ELSE CallRaised([m EXCEPT !.state = TRUE])

\* WorldUpdatePayloadMonitor.__call__, the end of the with block:
\* apply_world_update has returned (ok) and the call goes on to set the
\* state, or it has raised and the exception leaves the call
WorldUpdatePayloadMonitor_exit(m, ok) ==
    IF ok THEN [m EXCEPT !.pc = "set"] ELSE CallRaised(m)

\* WorldUpdatePayloadMonitor.__call__, after the with block
WorldUpdatePayloadMonitor_set(m) == CallReturned([m EXCEPT !.state = TRUE])

\* Sleep.__call__ once rospy.sleep is over; ok: it was not interrupted
Sleep_call(m, ok) ==
    IF ok THEN CallReturned([m EXCEPT !.state = TRUE]) ELSE CallRaised(m)

----------------------------------------------------------------------------
(* Specification of the payload monitors of one motion *)

InitPayload ==
    /\ \E n \in 1..MaxPayloads : \E kinds \in [1..n -> PayloadKinds] :
           task = [status |-> "payload",
                   monitors |-> [i \in 1..n |-> NewPayloadMonitor(kinds[i])],
                   world_lock |-> 0,        \* the monitor holding world_lock
                   time |-> 0]
    /\ build = [input |-> <<>>, result |-> NotBuilt]
    /\ solver = NoSolver
    /\ ctrl = NoCtrl
    /\ filt = NoFilt

\* the executor calls a monitor inline
CallInline ==
    /\ \E i \in DOMAIN task.monitors, ok \in BOOLEAN :
         /\ ~task.monitors[i].run_call_in_thread
         /\ task.monitors[i].pc = "idle"
         /\ task' = [task EXCEPT !.monitors[i] = InlineCall(@, task.time, ok)]
    /\ UNCHANGED <<build, solver, ctrl, filt>>

\* the executor starts a worker thread that calls the monitor
StartThread ==
    /\ \E i \in DOMAIN task.monitors :
         /\ task.monitors[i].run_call_in_thread
         /\ task.monitors[i].pc = "idle"
         /\ task' = [task EXCEPT !.monitors[i].pc =
                        IF task.monitors[i].kind \in WorldUpdateKinds
                        THEN "lock" ELSE "sleep"]
    /\ UNCHANGED <<build, solver, ctrl, filt>>

\* with WorldUpdatePayloadMonitor.world_lock: the lock is acquired
AcquireWorldLock ==
    /\ \E i \in DOMAIN task.monitors :
         /\ task.monitors[i].pc = "lock"
         /\ task.world_lock = 0
         /\ task' = [task EXCEPT !.monitors[i].pc = "apply", !.world_lock = i]
    /\ UNCHANGED <<build, solver, ctrl, filt>>

\* apply_world_update returns or raises; the with block releases the lock
ApplyWorldUpdate ==
    /\ \E i \in DOMAIN task.monitors, ok \in BOOLEAN :
         /\ task.monitors[i].pc = "apply"
         /\ task' = [task EXCEPT !.monitors[i] = WorldUpdatePayloadMonitor_exit(@, ok),
                                 !.world_lock = 0]
    /\ UNCHANGED <<build, solver, ctrl, filt>>

\* self.state = True after the with block
SetWorldUpdateState ==
    /\ \E i \in DOMAIN task.monitors :
         /\ task.monitors[i].pc = "set"
         /\ task' = [task EXCEPT !.monitors[i] = WorldUpdatePayloadMonitor_set(@)]
    /\ UNCHANGED <<build, solver, ctrl, filt>>

\* rospy.sleep of a Sleep monitor is over
FinishSleep ==
    /\ \E i \in DOMAIN task.monitors, ok \in BOOLEAN :
         /\ task.monitors[i].pc = "sleep"
         /\ task' = [task EXCEPT !.monitors[i] = Sleep_call(@, ok)]
    /\ UNCHANGED <<build, solver, ctrl, filt>>

\* the control loop advances god_map.time
AdvanceTime ==
    /\ task.time < MaxTime
    /\ task' = [task EXCEPT !.time = @ + 1]
    /\ UNCHANGED <<build, solver, ctrl, filt>>

NextPayload ==
    \/ CallInline
    \/ StartThread
    \/ AcquireWorldLock
    \/ ApplyWorldUpdate
    \/ SetWorldUpdateState
    \/ FinishSleep
    \/ AdvanceTime

SpecPayload == InitPayload /\ [][NextPayload]_vars

----------------------------------------------------------------------------
(* Claims about the state of payload monitors *)

StayTrueMonitors == {i \in DOMAIN task.monitors : task.monitors[i].stay_true}

\* the state of a stay-true monitor, once true, stays true
StateStaysTrue ==
    \A i \in StayTrueMonitors : task.monitors[i].state => task'.monitors[i].state

\* the monitors whose __call__ ends by raising the cancellation
CancellingKinds == {"CancelMotion", "SetMaxTrajectoryLength"}

----------------------------------------------------------------------------
(* The payload monitors together with the matrix assembler: the control    *)
(* loop calls the inline monitors, starts the worker threads and runs      *)
(* QPController._construct_big_ass_M; the worker threads run the           *)
(* world-update actions.                                                   *)

\* the control loop is not inside _construct_big_ass_M
IdleAssembler == [status |-> "assembler", pc |-> "idle"]

InitWorld ==
    /\ \E n \in 1..MaxPayloads : \E kinds \in [1..n -> PayloadKinds] :
           task = [status |-> "payload",
                   monitors |-> [i \in 1..n |-> NewPayloadMonitor(kinds[i])],
                   world_lock |-> 0,
                   time |-> 0]
    /\ ctrl = IdleAssembler
    /\ build = [input |-> <<>>, result |-> NotBuilt]
    /\ solver = NoSolver
    /\ filt = NoFilt

\* QPController._construct_big_ass_M is entered: B, H, BA and A are built
\* from the free variables and constraints; no lock is taken
BeginConstructBigM ==
    /\ ctrl.pc = "idle"
    /\ ctrl' = [ctrl EXCEPT !.pc = "constructing"]
    /\ UNCHANGED <<build, solver, task, filt>>

\* QPController._construct_big_ass_M returns
EndConstructBigM ==
    /\ ctrl.pc = "constructing"
    /\ ctrl' = [ctrl EXCEPT !.pc = "idle"]
    /\ UNCHANGED <<build, solver, task, filt>>

\* what the control loop does between two runs of the assembler: it calls
\* a monitor inline, starts a worker thread or advances the time
LoopCallsInline == ctrl.pc = "idle" /\ CallInline

LoopStartsThread == ctrl.pc = "idle" /\ StartThread

LoopAdvancesTime == ctrl.pc = "idle" /\ AdvanceTime

\* the steps of the control loop and of the worker threads
NextWorld ==
    \/ LoopCallsInline
    \/ LoopStartsThread
    \/ LoopAdvancesTime
    \/ AcquireWorldLock
    \/ ApplyWorldUpdate
    \/ SetWorldUpdateState
    \/ FinishSleep
    \/ BeginConstructBigM
    \/ EndConstructBigM

SpecWorld == InitWorld /\ [][NextWorld]_vars

----------------------------------------------------------------------------
(* Claims about the world lock *)

\* the monitors that are inside apply_world_update
ApplyingWorldUpdate == {i \in DOMAIN task.monitors : task.monitors[i].pc = "apply"}

\* no two world-update actions run at the same time
WorldUpdatesExclusive == Cardinality(ApplyingWorldUpdate) <= 1

\* the lock is held exactly by a monitor inside apply_world_update: it is
\* free again once the action has returned or raised
WorldLockHeldOnlyWhileApplying ==
    /\ task.world_lock # 0 => ApplyingWorldUpdate = {task.world_lock}
    /\ task.world_lock = 0 => ApplyingWorldUpdate = {}

\* C21: world-mutating payload actions are serialized by one shared lock:
\* no two of them execute concurrently, no run of the matrix assembler
\* overlaps one of them, and the lock is released again when the action
\* raises.
C21_WorldLockSerializes ==
    /\ WorldUpdatesExclusive
    /\ WorldLockHeldOnlyWhileApplying
    /\ ~(ctrl.pc = "constructing" /\ ApplyingWorldUpdate # {})

\* the part of C21 the code keeps: the world-update actions of the worker
\* threads exclude each other and the lock is free again after an action
\* that raised; the assembler takes no lock
C21_WorkersSerialized ==
    /\ WorldUpdatesExclusive
    /\ WorldLockHeldOnlyWhileApplying
    /\ \A i \in DOMAIN task.monitors :
           (task.monitors[i].raised /\ task.monitors[i].pc = "idle")
               => task.world_lock # i

----------------------------------------------------------------------------
(* The bounds of a relaxed attempt: QPSWIFTFormatter.__init__ drops the    *)
(* infinite entries of lb and ub, apply_filters drops the entries of the   *)
(* inactive columns, compute_violated_constraints widens the slack part.   *)

MaxRelaxNonSlack == 2   \* non-slack columns of a formatter
MaxRelaxSlack == 2      \* slack columns of a formatter
DeclaredBound == 5      \* the evaluated -lb and ub of every finite entry
RetryAddedSlack == 100  \* retry_added_slack

\* the formatters: the number of columns of each kind and, per column,
\* whether its lower and its upper bound are finite (to_filter)
RelaxLayouts ==
    {f \in [num_non_slack_variables : 1..MaxRelaxNonSlack,
            num_slack_variables : 0..MaxRelaxSlack,
            lb_inf_filter : SeqsUpTo(BOOLEAN, 1, MaxRelaxNonSlack + MaxRelaxSlack),
            ub_inf_filter : SeqsUpTo(BOOLEAN, 1, MaxRelaxNonSlack + MaxRelaxSlack)] :
        /\ Len(f.lb_inf_filter) = f.num_non_slack_variables + f.num_slack_variables
        /\ Len(f.ub_inf_filter) = f.num_non_slack_variables + f.num_slack_variables}

\* QPSWIFTFormatter.__init__: bound[inf_filter], the entries of the finite
\* bounds; every entry is kept with the column it belongs to
without_inf(inf_filter) ==
    NpMask([i \in DOMAIN inf_filter |-> [column |-> i, value |-> DeclaredBound]], inf_filter)

\* QPSWIFTFormatter.update_filters: weight_filter
weight_filter_of(weights, f) ==
    NpSetHeadNegTrue([i \in DOMAIN weights |-> weights[i] # 0], f.num_slack_variables)

\* QPSWIFTFormatter.apply_filters: bound[weight_filter[inf_filter]]
apply_filters_bound(bound, weight_filter, inf_filter) ==
    NpMask(bound, NpMask(weight_filter, inf_filter))

\* faulty variant: the entries widened are those of the slack columns
relaxed_bound_ByColumn(bound, num_non_slack_variables, retry_added_slack) ==
    [i \in DOMAIN bound |->
        IF bound[i].column > num_non_slack_variables
        THEN [bound[i] EXCEPT !.value = @ + retry_added_slack]
        ELSE bound[i]]

\* QPSWIFTFormatter.compute_violated_constraints:
\* bound_relaxed[num_non_slack_variables:] += retry_added_slack
relaxed_bound(bound, num_non_slack_variables, retry_added_slack) ==
    [i \in DOMAIN bound |->
        IF i > num_non_slack_variables
        THEN [bound[i] EXCEPT !.value = @ + retry_added_slack]
        ELSE bound[i]]

\* one relaxed attempt up to the bounds given to the solver
RelaxedBounds(f, weights) ==
    LET weight_filter == weight_filter_of(weights, f)
        nlb == apply_filters_bound(without_inf(f.lb_inf_filter), weight_filter,
                                   f.lb_inf_filter)
        ub == apply_filters_bound(without_inf(f.ub_inf_filter), weight_filter,
                                  f.ub_inf_filter)
    IN [weights |-> weights, nlb |-> nlb, ub |-> ub,
        nlb_relaxed |-> relaxed_bound(nlb, f.num_non_slack_variables, RetryAddedSlack),
        ub_relaxed |-> relaxed_bound(ub, f.num_non_slack_variables, RetryAddedSlack)]

NoAttempt == [weights |-> <<>>, nlb |-> <<>>, ub |-> <<>>,
              nlb_relaxed |-> <<>>, ub_relaxed |-> <<>>]

InitRelax ==
    /\ \E f \in RelaxLayouts :
           filt = [status |-> "relax", layout |-> f, ran |-> FALSE, last |-> NoAttempt]
    /\ build = [input |-> <<>>, result |-> NotBuilt]
    /\ solver = NoSolver
    /\ ctrl = NoCtrl
    /\ task = NoTask

\* a relaxed attempt of a tick with the evaluated weight row `weights`
RelaxedAttempt ==
    /\ \E weights \in [DOMAIN filt.layout.lb_inf_filter -> {0, 1}] :
           filt' = [filt EXCEPT !.ran = TRUE, !.last = RelaxedBounds(filt.layout, weights)]
    /\ UNCHANGED <<build, solver, ctrl, task>>

NextRelax == RelaxedAttempt

SpecRelax == InitRelax /\ [][NextRelax]_vars

----------------------------------------------------------------------------
(* Claims about the relaxed bounds *)

\* every entry of a slack column is wider by retry_added_slack, every entry
\* of a non-slack column is unchanged
WidenedAsSpecified(bound, relaxed, f) ==
    /\ Len(relaxed) = Len(bound)
    /\ \A i \in DOMAIN bound :
         /\ relaxed[i].column = bound[i].column
         /\ relaxed[i].value =
                IF bound[i].column > f.num_non_slack_variables
                THEN bound[i].value + RetryAddedSlack
                ELSE bound[i].value

\* every non-slack column has a finite lower and a finite upper bound
NonSlackFinite(f) ==
    \A i \in 1..f.num_non_slack_variables : f.lb_inf_filter[i] /\ f.ub_inf_filter[i]

\* C22: a relaxed attempt widens the lower and the upper bound of every
\* active slack column by exactly retry_added_slack and leaves the bounds of
\* the non-slack prefix unchanged, for every combination of finite and
\* infinite (dropped) bounds among the non-slack columns.
C22_RelaxedWidensSlackOnly ==
    (filt.status = "relax" /\ filt.ran) =>
        /\ WidenedAsSpecified(filt.last.nlb, filt.last.nlb_relaxed, filt.layout)
        /\ WidenedAsSpecified(filt.last.ub, filt.last.ub_relaxed, filt.layout)

\* the part of C22 the code keeps: no bound of a non-slack column is ever
\* changed, and when every non-slack column has finite bounds the bounds of
\* exactly the slack columns are widened by retry_added_slack
C22_WidenedWhenPrefixFinite ==
    (filt.status = "relax" /\ filt.ran) =>
        /\ \A i \in DOMAIN filt.last.nlb :
               filt.last.nlb[i].column <= filt.layout.num_non_slack_variables
                   => filt.last.nlb_relaxed[i] = filt.last.nlb[i]
        /\ \A i \in DOMAIN filt.last.ub :
               filt.last.ub[i].column <= filt.layout.num_non_slack_variables
                   => filt.last.ub_relaxed[i] = filt.last.ub[i]
        /\ NonSlackFinite(filt.layout) => 
               /\ WidenedAsSpecified(filt.last.nlb, filt.last.nlb_relaxed, filt.layout)
               /\ WidenedAsSpecified(filt.last.ub, filt.last.ub_relaxed, filt.layout)

----------------------------------------------------------------------------
(* B.__call__: the bounds of the free-variable columns *)

MaxBoundsVars == 2      \* free variables of the builds whose bounds are explored
MaxBoundsN == 3         \* their prediction horizon

BoundsInputs ==
    [free_variables : SeqsUpTo(FreeVariables, 1, MaxBoundsVars),
     constraints : {<<>>},
     derivative_constraints : {<<>>},
     prediction_horizon : 1..MaxBoundsN]

\* the value 0 and the value of v.get_lower_limit / v.get_upper_limit
ZeroBound == [kind |-> "zero", variable |-> 0, derivative |-> 0]
LimitBound(side, i, derivative) == [kind |-> side, variable |-> i, derivative |-> derivative]

\* faulty variant: the last step is clamped for every prediction horizon
B_bound_AnyHorizon(b, k, side) ==
    IF /\ k[2] = b.prediction_horizon - 1
       /\ k[4] < Min(b.free_variables[k[3]].order, ControllerOrder(b))
    THEN ZeroBound
    ELSE LimitBound(side, k[3], k[4])

\* B.__call__, the body of the loops: the value stored under the key
\* k = t{t}/{v}/{derivative}; side is the getter of the variable that is used
B_bound(b, k, side) ==
    IF /\ k[2] = b.prediction_horizon - 1
       /\ k[4] < Min(b.free_variables[k[3]].order, ControllerOrder(b))
       /\ b.prediction_horizon > 2
    THEN ZeroBound
    ELSE LimitBound(side, k[3], k[4])

\* B.__call__: the entries of lb (side "lower") or ub (side "upper") of the
\* free variables, one dictionary per derivative, each sorted by key
B_free_variable_bounds(b, side) ==
    _sorter([o \in 1..ControllerOrder(b) |->
                [j \in DOMAIN FreeVariableKeys(b, o) |->
                    [key |-> FreeVariableKeys(b, o)[j],
                     value |-> B_bound(b, FreeVariableKeys(b, o)[j], side)]]])

InitBounds ==
    /\ build \in [input : BoundsInputs, result : {NotBuilt}]
    /\ solver = NoSolver
    /\ ctrl = NoCtrl
    /\ task = NoTask
    /\ filt = NoFilt

\* B.__call__ of a build
CallB ==
    /\ build.result.status = "none"
    /\ build' = [build EXCEPT !.result =
                    [status |-> "bounds",
                     lb |-> B_free_variable_bounds(build.input, "lower"),
                     ub |-> B_free_variable_bounds(build.input, "upper")]]
    /\ UNCHANGED <<solver, ctrl, task, filt>>

NextBounds == CallB

SpecBounds == InitBounds /\ [][NextBounds]_vars

----------------------------------------------------------------------------
(* Claims about the bounds of the free-variable columns *)

\* the order up to which the variable of an entry is optimized: the highest
\* derivative the variable has a column for
OptimizedOrder(entries, i) ==
    MaxOf({entries[j].key[4] : j \in {j \in DOMAIN entries : entries[j].key[3] = i}})

\* every entry is 0 at the last step, for a derivative below the order the
\* variable is optimized to, when N > 2, and the variable's limit otherwise
BoundsAsSpecified(entries, side, N) ==
    \A j \in DOMAIN entries :
        LET k == entries[j].key
        IN entries[j].value =
               IF N > 2 /\ k[2] = N - 1 /\ k[4] < OptimizedOrder(entries, k[3])
               THEN ZeroBound
               ELSE LimitBound(side, k[3], k[4])

\* C23: in B, when N > 2, the lower and the upper bound at the last horizon
\* step are 0 for every free variable and every derivative below the order
\* up to which the variable is optimized; for every other step and
\* derivative, and whenever N <= 2, they are the variable's lower and upper
\* limit of that derivative.
C23_LastStepBoundsZero ==
    build.result.status = "bounds" =>
        /\ BoundsAsSpecified(build.result.lb, "lower", build.input.prediction_horizon)
        /\ BoundsAsSpecified(build.result.ub, "upper", build.input.prediction_horizon)

\* a build with N > 2 and a variable optimized to a higher derivative than
\* velocity: its velocity bound at the last step is 0, its highest
\* derivative's bound at the last step is the limit
C23_Witness ==
    /\ build.result.status = "bounds"
    /\ build.input.prediction_horizon > 2
    /\ \E j, h \in DOMAIN build.result.lb :
         /\ build.result.lb[j].key[2] = build.input.prediction_horizon - 1
         /\ build.result.lb[j].value = ZeroBound
         /\ build.result.ub[j].value = ZeroBound
         /\ build.result.lb[h].key[2] = build.input.prediction_horizon - 1
         /\ build.result.lb[h].key[3] = build.result.lb[j].key[3]
         /\ build.result.lb[h].value.kind = "lower"

----------------------------------------------------------------------------
(* BA: the row bounds of the derivative constraints and of the task        *)
(* constraints' errors.  Numbers are integers; the sample period dt is an  *)
(* integer number of time units.                                           *)

MaxClipN == 2           \* prediction horizon of the builds explored

ClipDts == {1, 2}
ClipLowerLimits == {0 - 3, 0 - 1}
ClipUpperLimits == {1, 3}
ClipFactors == {1, 2}
ClipLowerErrors == {0 - 5, 0 - 1}
ClipUpperErrors == {1, 5}

\* w.limit(x, lower_limit, upper_limit)
limit(x, lower_limit, upper_limit) == Max(lower_limit, Min(upper_limit, x))

\* one derivative constraint and one task constraint of horizon N
ClipInputs ==
    UNION {[prediction_horizon : {N},
            dt : ClipDts,
            derivative_constraint :
                [lower_limit : [1..N -> ClipLowerLimits],
                 upper_limit : [1..N -> ClipUpperLimits],
                 normalization_factor : ClipFactors,
                 control_horizon : 1..N],
            constraint :
                [lower_error : ClipLowerErrors,
                 upper_error : ClipUpperErrors,
                 velocity_limit : ClipFactors,
                 control_horizon : 1..N]] : N \in 1..MaxClipN}

\* faulty variant: the interval grows with the control horizon
get_derivative_Ax_limits_Horizon(b) ==
    LET c == b.derivative_constraint
        steps == SelectSeq([s \in 1..b.prediction_horizon |-> s - 1],
                           LAMBDA t : t < c.control_horizon)
    IN [j \in DOMAIN steps |->
           [t |-> steps[j],
            lower |-> limit(c.lower_limit[steps[j] + 1] * b.dt,
                            0 - c.normalization_factor * b.dt * c.control_horizon,
                            c.normalization_factor * b.dt * c.control_horizon),
            upper |-> limit(c.upper_limit[steps[j] + 1] * b.dt,
                            0 - c.normalization_factor * b.dt * c.control_horizon,
                            c.normalization_factor * b.dt * c.control_horizon)]]

\* BA.get_derivative_Ax_limits for the derivative of the constraint: the
\* entries t{t}/{c.name} of lower and upper
get_derivative_Ax_limits(b) ==
    LET c == b.derivative_constraint
        steps == SelectSeq([s \in 1..b.prediction_horizon |-> s - 1],
                           LAMBDA t : t < c.control_horizon)
    IN [j \in DOMAIN steps |->
           [t |-> steps[j],
            lower |-> limit(c.lower_limit[steps[j] + 1] * b.dt,
                            0 - c.normalization_factor * b.dt,
                            c.normalization_factor * b.dt),
            upper |-> limit(c.upper_limit[steps[j] + 1] * b.dt,
                            0 - c.normalization_factor * b.dt,
                            c.normalization_factor * b.dt)]]

\* BA.get_lower_constraint_error: the entry {c.name}/e
get_lower_constraint_error(b) ==
    limit(b.constraint.lower_error,
          0 - b.constraint.velocity_limit * b.dt * b.constraint.control_horizon,
          b.constraint.velocity_limit * b.dt * b.constraint.control_horizon)

\* BA.get_upper_constraint_error: the entry {c.name}/e
get_upper_constraint_error(b) ==
    limit(b.constraint.upper_error,
          0 - b.constraint.velocity_limit * b.dt * b.constraint.control_horizon,
          b.constraint.velocity_limit * b.dt * b.constraint.control_horizon)

NoRows == [derivative_done |-> FALSE, derivative |-> <<>>,
           error_done |-> FALSE, lower_error |-> 0, upper_error |-> 0]

InitClip ==
    /\ build \in [input : ClipInputs, result : {NoRows}]
    /\ solver = NoSolver
    /\ ctrl = NoCtrl
    /\ task = NoTask
    /\ filt = NoFilt

GetDerivativeAxLimits ==
    /\ ~build.result.derivative_done
    /\ build' = [build EXCEPT !.result.derivative_done = TRUE,
                              !.result.derivative = get_derivative_Ax_limits(build.input)]
    /\ UNCHANGED <<solver, ctrl, task, filt>>

GetConstraintError ==
    /\ ~build.result.error_done
    /\ build' = [build EXCEPT !.result.error_done = TRUE,
                              !.result.lower_error = get_lower_constraint_error(build.input),
                              !.result.upper_error = get_upper_constraint_error(build.input)]
    /\ UNCHANGED <<solver, ctrl, task, filt>>

NextClip == GetDerivativeAxLimits \/ GetConstraintError

SpecClip == InitClip /\ [][NextClip]_vars

----------------------------------------------------------------------------
(* Claims about the clipping of the row bounds *)

\* the derivative rows are limit * dt clipped to +- width
DerivativeRowsClippedTo(width) ==
    build.result.derivative_done =>
        \A j \in DOMAIN build.result.derivative :
            LET row == build.result.derivative[j]
                c == build.input.derivative_constraint
            IN /\ row.lower = limit(c.lower_limit[row.t + 1] * build.input.dt,
                                    0 - width, width)
               /\ row.upper = limit(c.upper_limit[row.t + 1] * build.input.dt,
                                    0 - width, width)

\* the error rows are the error bounds clipped to
\* +- velocity_limit * dt * control_horizon
ErrorRowsClipped ==
    build.result.error_done =>
        LET c == build.input.constraint
            width == c.velocity_limit * build.input.dt * c.control_horizon
        IN /\ build.result.lower_error = limit(c.lower_error, 0 - width, width)
           /\ build.result.upper_error = limit(c.upper_error, 0 - width, width)

\* C24: in BA every derivative-constraint row bound equals limit * dt
\* clipped to +- normalization_factor * dt * control_horizon, and every
\* task-constraint error row bound equals the error bound clipped to
\* +- reference_velocity * dt * control_horizon.
C24_RowsClippedWithHorizon ==
    /\ DerivativeRowsClippedTo(build.input.derivative_constraint.normalization_factor
                               * build.input.dt
                               * build.input.derivative_constraint.control_horizon)
    /\ ErrorRowsClipped

\* C24 as the code keeps it: every derivative-constraint row bound equals
\* limit * dt clipped to +- normalization_factor * dt, without the control
\* horizon, and every task-constraint error row bound equals the error
\* bound clipped to +- reference_velocity * dt * control_horizon.
C24_RowsClipped ==
    /\ DerivativeRowsClippedTo(build.input.derivative_constraint.normalization_factor
                               * build.input.dt)
    /\ ErrorRowsClipped

\* a derivative row whose limit is cut to normalization_factor * dt although
\* the control horizon is 2, and an error row cut to the width of its
\* control horizon
C24_Witness ==
    /\ build.result.derivative_done
    /\ build.result.error_done
    /\ build.input.derivative_constraint.control_horizon = 2
    /\ build.input.constraint.control_horizon = 2
    /\ \E j \in DOMAIN build.result.derivative :
         /\ build.result.derivative[j].upper
                = build.input.derivative_constraint.normalization_factor * build.input.dt
         /\ build.result.derivative[j].upper
                < build.input.derivative_constraint.upper_limit[j] * build.input.dt
    /\ build.result.upper_error
           = build.input.constraint.velocity_limit * build.input.dt * 2
    /\ build.result.upper_error < build.input.constraint.upper_error

----------------------------------------------------------------------------
(* Claims about the two compiled variants *)

\* the data a tick evaluates with the normal (FALSE) or the default-limits
\* (TRUE) variant of the controller's problem
VariantData(default_limits, subs) ==
    evaluate_and_create_np_data(ctrl.layout, ctrl.quadratic_weight, default_limits, subs)

\* the position-limit row j of the evaluated problem belongs to a variable
\* below its lower (side 1) or above its upper (side 2) position limit
RowOutside(data, j, subs, side) ==
    LET label == data.filtered_bA_names[j]
        v == ctrl.layout.input.free_variables[label[3]]
    IN /\ label[1] = "p_limit"
       /\ IF side = 1
          THEN get_lower_limit(v, position) - subs.pos[label[3]] > 0
          ELSE get_upper_limit(v, position) - subs.pos[label[3]] < 0

----------------------------------------------------------------------------
(* Claims about the retry budget across ticks *)

\* C26: the relaxed-retry budget of a solver instance is never reset between
\* ticks: once it is zero or below it stays there, and every later relaxed
\* attempt raises HardConstraintsViolatedException without calling the
\* backend (the only backend call of such a tick is the one of the normal
\* solve).
C26_BudgetExhaustionAbsorbing ==
    [][(solver.status = "ready" /\ solver.retries_with_relaxed_constraints <= 0) =>
          /\ solver'.retries_with_relaxed_constraints <= 0
          /\ solver'.last.relaxed = 1 =>
                /\ solver'.last.relaxed_raised = "HardConstraintsViolatedException"
                /\ solver'.last.result = "HardConstraintsViolatedException"
                /\ Len(solver'.last.backend) = 1
                /\ solver'.retries_with_relaxed_constraints
                       < solver.retries_with_relaxed_constraints]_vars

\* a solver whose budget was used up by relaxed attempts of earlier ticks
\* and that made a further relaxed attempt in a later tick
C26_Witness ==
    /\ solver.status = "ready"
    /\ solver.k0 >= 2
    /\ solver.calls >= 3
    /\ solver.retries_with_relaxed_constraints < 0
    /\ solver.last.relaxed = 1
    /\ solver.last.relaxed_raised = "HardConstraintsViolatedException"


\* a step that is a tick with a relaxed attempt started with budget >= 2
RelaxedAttemptWithBudget ==
    /\ solver.status = "ready"
    /\ solver.retries_with_relaxed_constraints >= 2
    /\ solver'.calls = solver.calls + 1
    /\ solver'.last.relaxed = 1

\* the backend solve of the relaxed problem succeeded and a violated bound
\* was found: the attempt went on to the backend call of the final problem
RelaxedSolveFoundViolation(call) ==
    Len(call.backend) = 3 /\ call.backend[2] = "ok"

\* C27: for a relaxed attempt started with budget b >= 2, the budget
\* afterwards is b - 1 if and only if the relaxed backend solve succeeded and
\* at least one bound violation was found; if the relaxed backend solve
\* fails, or succeeds without a violated bound, the budget is again b.
C27_BudgetAfterRelaxedAttempt ==
    [][RelaxedAttemptWithBudget =>
          /\ (solver'.retries_with_relaxed_constraints
                  = solver.retries_with_relaxed_constraints - 1)
                 <=> RelaxedSolveFoundViolation(solver'.last)
          /\ ~RelaxedSolveFoundViolation(solver'.last) =>
                 solver'.retries_with_relaxed_constraints
                     = solver.retries_with_relaxed_constraints]_vars

\* the part of C27 the code keeps: the budget afterwards is b when the
\* relaxed backend solve fails with a QPSolverException or succeeds without
\* a violated bound, and b - 1 when a violation was found; it is also b - 1
\* when the relaxed backend solve fails with any other exception
C27_BudgetRestoredOnQPFailure ==
    [][RelaxedAttemptWithBudget =>
          solver'.retries_with_relaxed_constraints =
              IF RelaxedSolveFoundViolation(solver'.last)
              THEN solver.retries_with_relaxed_constraints - 1
              ELSE IF solver'.last.backend[2] # "ok"
                      /\ ~IsInstance(solver'.last.backend[2], "QPSolverException")
              THEN solver.retries_with_relaxed_constraints - 1
              ELSE solver.retries_with_relaxed_constraints]_vars

----------------------------------------------------------------------------
(* Claims about what a retrieval leaves in the task *)

\* the constraint maps of the task after the retrieval of the given kind
RetrievedMap(t) ==
    CASE t.last.kind = "get_eq_constraints" -> t.eq_constraints
      [] t.last.kind = "get_neq_constraints" -> t.neq_constraints
      [] OTHER -> t.derivative_constraints

\* C28: retrieving a task's constraints does not modify the task's stored
\* constraints: after any number of retrievals the quadratic weight stored
\* in each registered constraint equals its declared weight, so every
\* retrieval applies the monitor gate exactly once to the declared weight.
C28_RetrievalLeavesStoredWeights ==
    task.status = "task" =>
        /\ \A k \in 1..3 : \A n \in DOMAIN ConstraintMaps(task)[k] :
               ConstraintMaps(task)[k][n].quadratic_weight
                   = DeclaredWeight(ConstraintMaps(task)[k][n].quadratic_weight.declared)
        /\ task.last.kind \in Getters =>
               \A n \in DOMAIN task.last.returned :
                   task.last.returned[n].quadratic_weight.factors = GateFactors(task.last)

\* what the code keeps instead of C28: a retrieval multiplies the gate onto
\* the weight stored in the constraint and returns the stored constraints,
\* so the returned weight is the weight stored before times the gate, and
\* the declared value and the bound of every constraint stay as registered
C28_RetrievalMultipliesStoredWeights ==
    (task.status = "task" /\ task.last.kind \in Getters) =>
        /\ RetrievedMap(task) = task.last.returned
        /\ DOMAIN task.last.returned = DOMAIN task.last.before
        /\ \A n \in DOMAIN task.last.returned :
             /\ task.last.returned[n].quadratic_weight.factors
                    = task.last.before[n].quadratic_weight.factors
                      \o GateFactors(task.last)
             /\ task.last.returned[n].quadratic_weight.declared
                    = task.last.before[n].quadratic_weight.declared
             /\ task.last.returned[n].bound = task.last.before[n].bound

----------------------------------------------------------------------------
(* Claims about overrides set after a limit was read *)

\* the limit a getter returns when an override exists for the derivative
\* and the default limit alone was not asked for
OverrideReflected(call, defaults, overrides, Combine(_, _)) ==
    (~call.default /\ call.derivative \in DOMAIN overrides) =>
        /\ call.raised = "none"
        /\ call.value = IF call.derivative \in DOMAIN defaults
                        THEN Combine(defaults[call.derivative], overrides[call.derivative])
                        ELSE overrides[call.derivative]

\* C29: after set_lower_limit(d, x) or set_upper_limit(d, x) the next
\* get_lower_limit(d) / get_upper_limit(d) reflects the new override, for
\* every sequence of earlier calls, including a call of the same getter with
\* the same arguments before the set.
C29_GetterReflectsOverride ==
    filt.status = "free_variable" =>
        /\ filt.last.op = "get_lower_limit" =>
               OverrideReflected(filt.last, filt.default_lower_limits, filt.lower_limits, Max)
        /\ filt.last.op = "get_upper_limit" =>
               OverrideReflected(filt.last, filt.default_upper_limits, filt.upper_limits, Min)

\* what holds instead of C29: a getter called with arguments it was not
\* called with before computes its result from the limits set at that
\* moment, and a getter called with arguments it returned a limit for
\* before returns that limit again
C29_GetterReturnsFirstResult ==
    [][(filt.status = "free_variable" /\ filt'.calls = filt.calls + 1) =>
          LET call == filt'.last
              key == <<call.derivative, call.default>>
              out == [raised |-> call.raised, value |-> call.value]
          IN /\ call.op = "get_lower_limit" =>
                   out = IF key \in DOMAIN filt.memo_lower THEN filt.memo_lower[key]
                         ELSE lower_limit_body(filt, call.derivative, call.default)
             /\ call.op = "get_upper_limit" =>
                   out = IF key \in DOMAIN filt.memo_upper THEN filt.memo_upper[key]
                         ELSE upper_limit_body(filt, call.derivative, call.default)]_vars

----------------------------------------------------------------------------
(* Claims about the dimensions used after variant swaps *)

=============================================================================
